---------------------------- MODULE Spec2Model ----------------------------
(***************************************************************************)
(* Model of rstudio/gcfgenv (src/gcfgenv.go): the exported functions       *)
(* ReadFileWithEnvInto and ReadWithEnvInto with maybeSkipBOM and           *)
(* mapFromEnviron, readWithMapInto, the overlay walker setGcfgWithEnvMap,  *)
(* the key derivation fieldToEnvVar and the value converter valFromEnvVar. *)
(*                                                                         *)
(* Go strings are sequences of one-character strings, so that prefix and   *)
(* suffix tests, replacement, upper-casing and splitting are computed the  *)
(* way package strings computes them.                                      *)
(*                                                                         *)
(* The configuration type the walker is run on:                            *)
(*                                                                         *)
(*   type T struct {                                                       *)
(*       F    string                                                       *)
(*       Nu   int8                                                         *)
(*       K_F  string                                                       *)
(*       Li   []string `gcfg:"l-i"`                                        *)
(*       priv string                                                       *)
(*   }                                                                     *)
(*   type config struct {                                                  *)
(*       Sec         T `gcfg:"s-x"`                                        *)
(*       Dyn         map[string]*T                                         *)
(*       Default_Dyn T                                                     *)
(*       hid         T                                                     *)
(*       Dy2         map[string]*T                                         *)
(*   }                                                                     *)
(***************************************************************************)
EXTENDS Integers, Sequences, FiniteSets, TLC

VARIABLES
    osEnviron,    \* os.Environ(): the NAME=value entries of the process
    file,         \* what os.Open finds under filename, or the bytes of r
    offset,       \* how many bytes of the file have been read
    env,          \* the environment map handed to readWithMapInto
    envPrefix,    \* the prefix argument as the caller gave it
    cfg,          \* the configuration object (config)
    upstreamErr,  \* what gcfg.ReadInto returned
    prefix,       \* the local, normalised prefix
    pc,           \* position: ReadFileWithEnvInto or ReadWithEnvInto (called),
                  \*   openFailed, environPanic, start (readWithMapInto
                  \*   called), walk, existing, new, done, panic
    i,            \* index of the top-level field being walked
    j,            \* index of the field of the section / subsection type
    matchingEnv,  \* the partition of env for the current map section
    iterLeft,     \* subsections sec.MapRange() has not visited yet
    err,          \* what setGcfgWithEnvMap returned
    ret,          \* what the function called returned
    cfg0,         \* history: the object as the base parser left it
    written,      \* history: location -> the value last set into it
    convType,     \* valFromEnvVar called on its own: the type t
    convText,     \*   the text env
    convResult    \*   what it returned, as [val, err]

\* the variables of a call of valFromEnvVar on its own
conv == <<convType, convText, convResult>>

\* what the caller's process holds: its environment and the file
caller == <<osEnviron, file, offset>>

vars == <<osEnviron, file, offset, env, envPrefix, cfg, upstreamErr, prefix, pc, i, j,
          matchingEnv, iterLeft, err, ret, cfg0, written, convType, convText, convResult>>

-----------------------------------------------------------------------------
(* Package strings, on sequences of characters.                            *)

Lower == <<"a","b","c","d","e","f","g","h","i","j","k","l","m",
           "n","o","p","q","r","s","t","u","v","w","x","y","z">>
Upper == <<"A","B","C","D","E","F","G","H","I","J","K","L","M",
           "N","O","P","Q","R","S","T","U","V","W","X","Y","Z">>

UpperChar(c) ==
    IF \E n \in 1..26 : Lower[n] = c
    THEN Upper[CHOOSE n \in 1..26 : Lower[n] = c]
    ELSE c

RECURSIVE ToUpper(_)
ToUpper(s) ==
    IF s = <<>> THEN <<>> ELSE <<UpperChar(Head(s))>> \o ToUpper(Tail(s))

RECURSIVE DashToUnderscore(_)
DashToUnderscore(s) ==
    IF s = <<>> THEN <<>>
    ELSE <<IF Head(s) = "-" THEN "_" ELSE Head(s)>> \o DashToUnderscore(Tail(s))

HasPrefix(s, p) == Len(p) <= Len(s) /\ SubSeq(s, 1, Len(p)) = p

HasSuffix(s, p) == Len(p) <= Len(s) /\ SubSeq(s, Len(s) - Len(p) + 1, Len(s)) = p

\* strings.Index, 1-based; 0 when old does not occur in s.
Index(s, old) ==
    LET hits == {n \in 1..(Len(s) - Len(old) + 1) :
                    SubSeq(s, n, n + Len(old) - 1) = old}
    IN  IF hits = {} THEN 0 ELSE CHOOSE n \in hits : \A o \in hits : n <= o

\* strings.Replace(s, old, "", 1) for a non-empty old.
ReplaceFirst(s, old) ==
    LET at == Index(s, old)
    IN  IF at = 0 THEN s
        ELSE SubSeq(s, 1, at - 1) \o SubSeq(s, at + Len(old), Len(s))

RECURSIVE Split(_, _)
\* strings.Split(s, sep) for a one-character sep.
Split(s, sep) ==
    LET at == Index(s, <<sep>>)
    IN  IF at = 0 THEN <<s>>
        ELSE <<SubSeq(s, 1, at - 1)>> \o Split(SubSeq(s, at + 1, Len(s)), sep)

RECURSIVE SplitN(_, _, _)
\* strings.SplitN(s, sep, n) for a one-character sep and n >= 1: at most n
\* parts, the last one the rest of s
SplitN(s, sep, n) ==
    IF n = 1 \/ Index(s, <<sep>>) = 0 THEN <<s>>
    ELSE <<SubSeq(s, 1, Index(s, <<sep>>) - 1)>>
             \o SplitN(SubSeq(s, Index(s, <<sep>>) + 1, Len(s)), sep, n - 1)

RECURSIVE RemoveSpaces(_)
\* strings.ReplaceAll(s, " ", "")
RemoveSpaces(s) ==
    IF s = <<>> THEN <<>>
    ELSE (IF Head(s) = " " THEN <<>> ELSE <<Head(s)>>) \o RemoveSpaces(Tail(s))

\* unicode.IsSpace, for the characters texts are made of here
IsSpace(c) == c \in {" ", "\t", "\n"}

RECURSIVE TrimLeft(_)
TrimLeft(s) == IF s # <<>> /\ IsSpace(Head(s)) THEN TrimLeft(Tail(s)) ELSE s

RECURSIVE TrimRight(_)
TrimRight(s) ==
    IF s # <<>> /\ IsSpace(s[Len(s)]) THEN TrimRight(SubSeq(s, 1, Len(s) - 1)) ELSE s

TrimSpace(s) == TrimRight(TrimLeft(s))

-----------------------------------------------------------------------------
(* Errors.  Every error value has the same fields, so that any two can be  *)
(* compared.                                                               *)

Nil == [kind |-> "nil", typ |-> "", text |-> <<>>]

ParseFailure(t, text) == [kind |-> "parse", typ |-> t, text |-> text]

Overflow(t, text) == [kind |-> "overflow", typ |-> t, text |-> text]

\* strconv's "value out of range", printed as a failure to parse
OutOfRange(t, text) == [kind |-> "range", typ |-> t, text |-> text]

\* "unsupported type: " and the kind of the type
UnsupportedType(k) == [kind |-> "unsupported", typ |-> k, text |-> <<>>]

UpstreamFatal == [kind |-> "fatal", typ |-> "", text |-> <<>>]

UpstreamWarning == [kind |-> "warning", typ |-> "", text |-> <<>>]

ConversionKinds == {"parse", "range", "overflow", "unsupported"}

-----------------------------------------------------------------------------
(* Types of the fields valFromEnvVar is asked to fill.  A type is written  *)
(* as Go prints it; the pointer and slice types are those of the types     *)
(* listed, one or two levels deep.                                         *)

SignedTypes == {"int", "int8", "int16", "int32", "int64"}

UnsignedTypes == {"uint", "uint8", "uint16", "uint32", "uint64"}

FloatTypes == {"float32", "float64"}

\* the types that are neither pointers nor slices; lowerString is the
\* string type of the tests whose pointer implements TextUnmarshaler
BasicTypes == {"string", "lowerString", "bool", "chan int", "[3]int"}
                  \cup SignedTypes \cup UnsignedTypes \cup FloatTypes

PtrTo(b) == "*" \o b

SliceOf(b) == "[]" \o b

\* the types a pointer or a slice is made of
ElemTypes == BasicTypes \cup {PtrTo(b) : b \in BasicTypes} \cup {SliceOf(b) : b \in BasicTypes}

\* reflect.Type.Kind; int stands for the five signed and uint for the five
\* unsigned integer kinds, float for the two float kinds
Kind(t) ==
    CASE \E b \in ElemTypes : t = PtrTo(b)   -> "ptr"
      [] \E b \in ElemTypes : t = SliceOf(b) -> "slice"
      [] t \in {"string", "lowerString"}     -> "string"
      [] t = "bool"                          -> "bool"
      [] t \in SignedTypes                   -> "int"
      [] t \in UnsignedTypes                 -> "uint"
      [] t \in FloatTypes                    -> "float"
      [] t = "[3]int"                        -> "array"
      [] OTHER                               -> "chan"

\* reflect.Type.Elem of a pointer or slice type
Elem(t) == CHOOSE b \in ElemTypes : t \in {PtrTo(b), SliceOf(b)}

\* the width of the numeric types; int and uint are as wide as on a 64-bit
\* build
Bits(t) ==
    CASE t \in {"int8", "uint8"}              -> 8
      [] t \in {"int16", "uint16"}            -> 16
      [] t \in {"int32", "uint32", "float32"} -> 32
      [] OTHER                                -> 64

\* no type taken to implement encoding.TextUnmarshaler
ImplementsTextUnmarshaler_None(t) == FALSE

\* whether *t implements encoding.TextUnmarshaler
ImplementsTextUnmarshaler(t) == t = "lowerString"

RECURSIVE ToLower(_)
ToLower(s) ==
    IF s = <<>> THEN <<>>
    ELSE <<IF \E n \in 1..26 : Upper[n] = Head(s)
           THEN Lower[CHOOSE n \in 1..26 : Upper[n] = Head(s)]
           ELSE Head(s)>> \o ToLower(Tail(s))

\* lowerString.UnmarshalText: the text lower-cased, never an error
UnmarshalText(t, text) == [val |-> ToLower(text), err |-> Nil]

-----------------------------------------------------------------------------
(* Numbers.  The integers of the model checker have 32 bits, so a number   *)
(* is computed as its decimal digits, least significant first and without  *)
(* a zero at the top (<<>> is 0).  A value of an 8 or 16 bit type is        *)
(* stored as an integer; a value of a wider integer type as its sign and   *)
(* its decimal digits, most significant first; a float as the decimal      *)
(* number it is exactly, sign, digits and power of ten (the float32 of     *)
(* 0.1 is 0.100000001490116119384765625), or as an infinity or a NaN.      *)

HexDigits == <<"0","1","2","3","4","5","6","7","8","9","a","b","c","d","e","f">>

IsDigit(c, base) == \E n \in 1..base : HexDigits[n] = c

DigitVal(c) == (CHOOSE n \in 1..16 : HexDigits[n] = c) - 1

RECURSIVE CarryDigits(_)
\* the digits of a carry
CarryDigits(c) == IF c = 0 THEN <<>> ELSE <<c % 10>> \o CarryDigits(c \div 10)

\* the digits of two halves of a number, and the carry out of the upper
MulAddJoin(lo, hi) == [d |-> lo.d \o hi.d, c |-> hi.c]

RECURSIVE MulAddCarry(_, _, _)
RECURSIVE MulAddUpper(_, _, _)
\* the upper half of n times k, plus the carry out of the lower half
MulAddUpper(n, k, lo) ==
    MulAddJoin(lo, MulAddCarry(SubSeq(n, Len(n) \div 2 + 1, Len(n)), k, lo.c))

\* n * k + c as Len(n) digits d and the carry c out of them; the number is
\* halved rather than walked digit by digit
MulAddCarry(n, k, c) ==
    IF n = <<>> THEN [d |-> <<>>, c |-> c]
    ELSE IF Len(n) = 1
    THEN [d |-> <<(n[1] * k + c) % 10>>, c |-> (n[1] * k + c) \div 10]
    ELSE MulAddUpper(n, k, MulAddCarry(SubSeq(n, 1, Len(n) \div 2), k, c))

WithCarry(r) == r.d \o CarryDigits(r.c)

\* n * k + c, for k >= 1
MulAdd(n, k, c) == WithCarry(MulAddCarry(n, k, c))

RECURSIVE Magnitude(_, _, _)
\* value of a run of digits, most significant first, added to acc * base^Len
Magnitude(s, base, acc) ==
    IF acc = <<>> /\ s = <<>> THEN <<>>
    ELSE IF s = <<>> THEN acc
    ELSE Magnitude(Tail(s), base, MulAdd(acc, base, DigitVal(Head(s))))

\* a < b
Less(a, b) ==
    IF Len(a) # Len(b) THEN Len(a) < Len(b)
    ELSE \E n \in 1..Len(a) : /\ a[n] < b[n]
                              /\ \A m \in (n + 1)..Len(a) : a[m] = b[m]

RECURSIVE TimesPow(_, _, _)
\* n * k^p; the power is halved rather than counted down
TimesPow(n, k, p) ==
    IF n = <<>> \/ p = 0 THEN n
    ELSE IF p = 1 THEN MulAdd(n, k, 0)
    ELSE TimesPow(TimesPow(n, k, p \div 2), k, p - p \div 2)

\* n * 2^p, n * 5^p and n * 10^p, n itself for a p below 0; the first two
\* take 2^24 and 5^10 at a time
TimesPow2(n, p) ==
    IF p <= 0 THEN n ELSE TimesPow(TimesPow(n, 16777216, p \div 24), 2, p % 24)

TimesPow5(n, p) == TimesPow(TimesPow(n, 9765625, p \div 10), 5, p % 10)

TimesPow10(n, p) == IF n = <<>> THEN <<>> ELSE [m \in 1..p |-> 0] \o n

Pow2(n) == TimesPow2(<<1>>, n)

\* the number without the zeros at its top
Trim(n) ==
    SubSeq(n, 1, IF \A m \in 1..Len(n) : n[m] = 0 THEN 0
                 ELSE CHOOSE m \in 1..Len(n) :
                          n[m] # 0 /\ \A l \in (m + 1)..Len(n) : n[l] = 0)

RECURSIVE SubRange(_, _, _, _, _)
RECURSIVE SubUpper(_, _, _, _, _)
\* the upper half of the digits lo..hi of a - b, after the borrow out of the
\* lower half
SubUpper(a, b, lo, hi, low) ==
    MulAddJoin(low, SubRange(a, b, (lo + hi) \div 2 + 1, hi, low.c))

\* the digits lo..hi of a - b - c as d and the borrow c out of them, b
\* having zeros above its top; the range is halved rather than walked digit
\* by digit
SubRange(a, b, lo, hi, c) ==
    IF lo > hi THEN [d |-> <<>>, c |-> c]
    ELSE IF lo = hi
    THEN [d |-> <<(a[lo] - (IF lo <= Len(b) THEN b[lo] ELSE 0) - c + 10) % 10>>,
          c |-> IF a[lo] - (IF lo <= Len(b) THEN b[lo] ELSE 0) - c < 0 THEN 1 ELSE 0]
    ELSE SubUpper(a, b, lo, hi, SubRange(a, b, lo, (lo + hi) \div 2, c))

\* a - b, for a >= b
Sub(a, b) == Trim(SubRange(a, b, 1, Len(a), 0).d)

RECURSIVE DivDigit(_, _, _)
\* how many times b goes into r, d times taken already, and what is left
DivDigit(r, b, d) ==
    IF Less(r, b) THEN [d |-> d, r |-> r] ELSE DivDigit(Sub(r, b), b, d + 1)

RECURSIVE DivFrom(_, _, _, _)
RECURSIVE DivStep(_, _, _, _)
\* the digit s.d of the quotient is put below the digits q found before
DivStep(b, n, q, s) == DivFrom(s.r, b, n - 1, <<s.d>> \o q)

\* long division of r by b from the digit that stands for 10^n down
DivFrom(r, b, n, q) ==
    IF n < 0 THEN [q |-> Trim(q), r |-> r]
    ELSE DivStep(b, n, q, DivDigit(r, TimesPow10(b, n), 0))

\* quotient q and remainder r of a by b, for b > 0
DivMod(a, b) == DivFrom(a, b, Len(a) - Len(b), <<>>)

\* the number of bits of a number from 1 to 2^64 - 1
BitLen(n) == CHOOSE k \in 1..64 : Less(n, Pow2(k)) /\ ~Less(n, Pow2(k - 1))

RECURSIVE Small(_)
\* a number of fewer than ten digits as an integer
Small(n) == IF n = <<>> THEN 0 ELSE Head(n) + 10 * Small(Tail(n))

\* the digits of n, most significant first
Digits(n) == [m \in 1..Len(n) |-> HexDigits[n[Len(n) + 1 - m] + 1]]

\* the value of an integer of type t
IntValue(t, neg, n) ==
    IF Bits(t) <= 16 THEN (IF neg THEN 0 - Small(n) ELSE Small(n))
    ELSE [neg |-> neg /\ n # <<>>, digits |-> IF n = <<>> THEN <<"0">> ELSE Digits(n)]

\* whether the number does not fit an integer of w bits
Exceeds(signed, neg, n, w) ==
    IF signed /\ neg THEN Less(Pow2(w - 1), n)
    ELSE ~Less(n, Pow2(IF signed THEN w - 1 ELSE w))

RECURSIVE Run(_, _)
\* the longest prefix of s made of characters of set: what fmt's scanner
\* accepts in a row
Run(s, set) ==
    IF s # <<>> /\ Head(s) \in set THEN <<Head(s)>> \o Run(Tail(s), set) ELSE <<>>

\* s without its first n characters
Drop(s, n) == SubSeq(s, n + 1, Len(s))

DecimalDigits == {HexDigits[n] : n \in 1..10}

HexadecimalDigits == {HexDigits[n] : n \in 1..16} \cup {"A", "B", "C", "D", "E", "F"}

RECURSIVE WithoutUnderscores(_)
WithoutUnderscores(s) ==
    IF s = <<>> THEN <<>>
    ELSE (IF Head(s) = "_" THEN <<>> ELSE <<Head(s)>>) \o WithoutUnderscores(Tail(s))

RECURSIVE CapExp(_, _)
\* the exponent digits as strconv reads them: it stops adding digits from
\* 10000 on
CapExp(s, acc) ==
    IF s = <<>> THEN acc
    ELSE CapExp(Tail(s), IF acc < 10000 THEN acc * 10 + DigitVal(Head(s)) ELSE acc)

RECURSIVE UnderscoresFrom(_, _, _)
\* strconv's underscoreOK after the sign and the base prefix: saw is the
\* kind of the character before, "0" a digit, "_" an underscore, "!" another
UnderscoresFrom(s, saw, hex) ==
    IF s = <<>> THEN saw # "_"
    ELSE IF Head(s) \in DecimalDigits \/ (hex /\ Head(s) \in HexadecimalDigits)
    THEN UnderscoresFrom(Tail(s), "0", hex)
    ELSE IF Head(s) = "_"
    THEN saw = "0" /\ UnderscoresFrom(Tail(s), "_", hex)
    ELSE saw # "_" /\ UnderscoresFrom(Tail(s), "!", hex)

\* strconv's underscoreOK for a token without its sign: an underscore
\* stands between two digits, or between the base prefix and a digit
UnderscoresOK(tok, hex) ==
    IF hex THEN UnderscoresFrom(Drop(tok, 2), "0", TRUE)
    ELSE UnderscoresFrom(tok, "^", FALSE)

\* the sign fmt's scanner accepts at the head of s, or nothing
SignOf(s) == IF s # <<>> /\ Head(s) \in {"-", "+"} THEN <<Head(s)>> ELSE <<>>

\* gcfg's prefix0x: the text is scanned with %v, which knows 0x, and not
\* with %d
Prefix0x(v) == HasPrefix(v, <<"0", "x">>) \/ HasPrefix(v, <<"-", "0", "x">>)

\* the end of the integer scan, in the order of strconv.ParseInt and
\* ParseUint.  Without a digit in the token (ok) nothing is stored; a number
\* of more than 64 bits is the range error of ParseUint, raised while the
\* digits are read and so before the "_" are looked at; a token whose "_"
\* are not placed as in a Go literal (usok) is a syntax error; a number that
\* is beyond an int64 for a signed type is the range error of ParseInt; a
\* number that does not fit t is an integer overflow; in all these cases
\* nothing is stored.  Otherwise the number is stored, and text left over
\* after it (rest) is a failure all the same.
IntResult(t, v, neg, mag, rest, ok, usok) ==
    IF ~ok THEN [val |-> IntValue(t, FALSE, <<>>), err |-> ParseFailure(t, v)]
    ELSE IF Exceeds(FALSE, FALSE, mag, 64)
    THEN [val |-> IntValue(t, FALSE, <<>>), err |-> OutOfRange(t, v)]
    ELSE IF ~usok
    THEN [val |-> IntValue(t, FALSE, <<>>), err |-> ParseFailure(t, v)]
    ELSE IF Exceeds(Kind(t) = "int", neg, mag, 64)
    THEN [val |-> IntValue(t, FALSE, <<>>), err |-> OutOfRange(t, v)]
    ELSE IF Exceeds(Kind(t) = "int", neg, mag, Bits(t))
    THEN [val |-> IntValue(t, FALSE, <<>>), err |-> Overflow(t, v)]
    ELSE [val |-> IntValue(t, neg, mag),
          err |-> IF rest # <<>> THEN ParseFailure(t, v) ELSE Nil]

\* the run of digits of the token: the token has digits for strconv when
\* under %v it has its 0x and when the run is more than "_"
IntRun(t, v, hex, sign, body, pre, run) ==
    IntResult(t, v, sign = <<"-">>,
              Magnitude(ToLower(WithoutUnderscores(run)), IF hex THEN 16 ELSE 10, <<>>),
              Drop(body, Len(pre) + Len(run)),
              /\ hex => pre # <<>>
              /\ WithoutUnderscores(run) # <<>>,
              UnderscoresOK(pre \o run, hex))

\* the token after its sign: under %v the base prefix 0x and hexadecimal
\* digits or "_", under %d decimal digits
IntBody(t, v, hex, sign, body) ==
    IntRun(t, v, hex, sign, body,
           IF hex /\ HasPrefix(body, <<"0", "x">>) THEN <<"0", "x">> ELSE <<>>,
           IF hex /\ HasPrefix(body, <<"0", "x">>)
           THEN Run(Drop(body, 2), HexadecimalDigits \cup {"_"})
           ELSE IF hex THEN <<>> ELSE Run(body, DecimalDigits))

\* the sign of the token: accepted for the signed types only
IntToken(t, v, sign) == IntBody(t, v, Prefix0x(v), sign, Drop(v, Len(sign)))

\* types.ParseInt(&i, env, types.Dec|types.Hex) into an integer of type t.
\* The text is trimmed and handed to ScanFully, that is to
\* fmt.Sscanf(val, "%d%s", &i, &b), or "%v%s" when the text starts with 0x or
\* -0x: a sign (signed types only) and a run of digits are scanned and
\* handed to strconv.
ParseInt(t, text) ==
    IntToken(t, TrimSpace(text), IF Kind(t) = "int" THEN SignOf(TrimSpace(text)) ELSE <<>>)

\* types.ParseBool: the text lower-cased and looked up among the names of
\* the two values
ParseBool(s) ==
    LET l == ToLower(s)
    IN  IF l \in {<<"t", "r", "u", "e">>, <<"y", "e", "s">>, <<"o", "n">>, <<"1">>}
        THEN [val |-> TRUE, err |-> Nil]
        ELSE IF l \in {<<"f", "a", "l", "s", "e">>, <<"n", "o">>, <<"o", "f", "f">>, <<"0">>}
        THEN [val |-> FALSE, err |-> Nil]
        ELSE [val |-> FALSE, err |-> ParseFailure("bool", l)]

RECURSIVE SkipSpace(_)
\* fmt's SkipSpace inside Sscanf: blanks and tabs are skipped, a newline is
\* an error ("unexpected newline")
SkipSpace(s) ==
    IF s = <<>> THEN [rest |-> <<>>, nl |-> FALSE]
    ELSE IF Head(s) = "\n" THEN [rest |-> s, nl |-> TRUE]
    ELSE IF IsSpace(Head(s)) THEN SkipSpace(Tail(s))
    ELSE [rest |-> s, nl |-> FALSE]

\* the float 0, what a variable holds before anything is stored
ZeroFloat == [neg |-> FALSE, digits |-> <<"0">>, exp |-> 0]

\* how many zeros the number n ends in
ZerosAtEnd(n) == (CHOOSE m \in 1..Len(n) : n[m] # 0 /\ \A l \in 1..(m - 1) : n[l] = 0) - 1

\* the decimal number -1^neg * n * 10^e, without zeros at the end of its
\* digits; 0 keeps its sign, as a float does
Norm(neg, n, e) ==
    IF n = <<>> THEN [neg |-> neg, digits |-> <<"0">>, exp |-> 0]
    ELSE [neg |-> neg, digits |-> Digits(Drop(n, ZerosAtEnd(n))), exp |-> e + ZerosAtEnd(n)]

\* n * 10^e10 * 2^e2 as a decimal number
Scaled(neg, n, e10, e2) ==
    IF e2 >= 0 THEN Norm(neg, TimesPow2(n, e2), e10)
    ELSE Norm(neg, TimesPow5(n, 0 - e2), e10 + e2)

\* the format of the floats of type t: bits is the number of bits of the
\* mantissa, the hidden one included, 2^min is the least float above 0 and
\* the floats are below 2^max
FloatFormat(t) ==
    IF Bits(t) = 32 THEN [bits |-> 24, min |-> 0 - 149, max |-> 128]
    ELSE [bits |-> 53, min |-> 0 - 1074, max |-> 1024]

\* a float in binary: -1^neg * mant * 2^exp2, or an infinity
BinFloat(neg, mant, exp2, inf) == [neg |-> neg, mant |-> mant, exp2 |-> exp2, inf |-> inf]

\* the value of a float in binary: the decimal number it is exactly
Exact(f) ==
    IF f.inf THEN [inf |-> IF f.neg THEN -1 ELSE 1] ELSE Scaled(f.neg, f.mant, 0, f.exp2)

Within(x, lim) == IF x > lim THEN lim ELSE IF x < 0 - lim THEN 0 - lim ELSE x

\* bounds of the binary logarithm of 10^y, rounded down
Log2Below(y) == IF y >= 0 THEN (y * 33219) \div 10000 ELSE (y * 33220) \div 10000

Log2Above(y) == IF y >= 0 THEN (y * 33220) \div 10000 ELSE (y * 33219) \div 10000

\* the mantissa q at exponent e, rounded: an infinity from 2^max on
RoundDone(t, neg, e, q) ==
    BinFloat(neg, q, e, /\ FloatFormat(t).max - e <= FloatFormat(t).bits
                        /\ ~Less(q, Pow2(FloatFormat(t).max - e)))

\* the bits below the mantissa are dropped, to the nearest mantissa and to
\* the even one when halfway: d is the mantissa and the bits below it, half
\* is the value of the first of these bits, sticky tells that the number has
\* more below them
RoundShift(t, neg, e, sticky, d, half) ==
    RoundDone(t, neg, e,
              IF \/ Less(half, d.r)
                 \/ d.r = half /\ (sticky \/ (d.q # <<>> /\ d.q[1] % 2 = 1))
              THEN MulAdd(d.q, 1, 1)
              ELSE d.q)

\* the quotient dm of the number by 2^e0 loses its last x bits
RoundQuot(t, neg, e0, dm, x) ==
    RoundShift(t, neg, e0 + x, dm.r # <<>>,
               DivMod(dm.q, MulAdd(<<1>>, 2^x, 0)), MulAdd(<<1>>, 2^(x - 1), 0))

\* the quotient has x bits beyond the mantissa, two at least: it is below
\* top * 2^x and not below top * 2^(x - 1), top being 2^bits
RoundAt(t, neg, e0, dm, top) ==
    RoundQuot(t, neg, e0, dm,
              CHOOSE x \in 2..12 : /\ Less(dm.q, MulAdd(top, 2^x, 0))
                                   /\ x > 2 => ~Less(dm.q, MulAdd(top, 2^(x - 1), 0)))

\* the number is divided by 2^e0, an exponent at least two below the one
\* of its float
RoundFrom(t, neg, n, e10, e2, e0) ==
    RoundAt(t, neg, e0,
            DivMod(TimesPow2(TimesPow10(n, e10), e2 - e0),
                   TimesPow2(TimesPow10(<<1>>, 0 - e10), e0 - e2)),
            Pow2(FloatFormat(t).bits))

\* the number is between 2^lo and 2^(hi + 1): an infinity from 2^max on,
\* 0 below half the least float
RoundBetween(t, neg, n, e10, e2, lo, hi) ==
    IF lo >= FloatFormat(t).max THEN BinFloat(neg, <<>>, 0, TRUE)
    ELSE IF hi < FloatFormat(t).min - 1 THEN BinFloat(neg, <<>>, 0, FALSE)
    ELSE RoundFrom(t, neg, n, e10, e2,
                   IF lo - FloatFormat(t).bits - 1 > FloatFormat(t).min - 2
                   THEN lo - FloatFormat(t).bits - 1
                   ELSE FloatFormat(t).min - 2)

\* the float of type t nearest to -1^neg * n * 10^e10 * 2^e2, the one with
\* the even mantissa when two are as near, as strconv.ParseFloat, math.Ldexp
\* and the conversion to float32 round; one of e10 and e2 is 0
Round(t, neg, n, e10, e2) ==
    IF n = <<>> THEN BinFloat(neg, <<>>, 0, FALSE)
    ELSE RoundBetween(t, neg, n, e10, Within(e2, 200000),
                      Log2Below(Within(Len(n) + e10 - 1, 20000)) + Within(e2, 200000),
                      Log2Above(Within(Len(n) + e10, 20000)) + Within(e2, 200000))

\* the end of the float scan: val is what convertFloat makes of the token
\* and is stored unless it is an error; anything but space after the token
\* (b is what SkipSpace found there), or a newline, is a failure
FloatResult(t, text, r, b) ==
    IF r.err # Nil THEN [val |-> ZeroFloat, err |-> r.err]
    ELSE [val |-> r.val,
          err |-> IF b.nl \/ b.rest # <<>> THEN ParseFailure(t, text) ELSE Nil]

\* math.Ldexp(f, m) for a float f that is not 0 and the int m of 64 bits,
\* -1^eneg * mag, converted to type t; log is the binary exponent of f.  m
\* is added to log in 64 bits, so that a sum of 2^63 or more is taken for a
\* negative exponent and gives 0, and a sum below -2^63 for a positive one
\* and gives an infinity; otherwise the float nearest to f * 2^m, an
\* infinity when that is too great.
Ldexp(t, f, eneg, mag, log) ==
    IF ~eneg /\ log > 0 /\ ~Less(MulAdd(mag, 1, log), Pow2(63))
    THEN BinFloat(f.neg, <<>>, 0, FALSE)
    ELSE IF eneg /\ log < 0 /\ Less(Pow2(63), MulAdd(mag, 1, 0 - log))
    THEN BinFloat(f.neg, <<>>, 0, TRUE)
    ELSE Round(t, f.neg, f.mant, 0,
               f.exp2 + (IF eneg THEN 0 - 1 ELSE 1)
                           * (IF Len(mag) > 6 THEN 1000000 ELSE Small(mag)))

\* what convertFloat does with the float f that strconv.ParseFloat made of
\* the token, or of the part before the p when the token is a decimal one
\* with the exponent mark p (binary): an f that is an infinity is the range
\* error of ParseFloat.  For a binary token strconv.Atoi of the part after
\* the p comes next: digits are needed; a run of digits of more than 64
\* bits is the range error of ParseUint, raised before a "_" after the run
\* is met; a "_" is a syntax error; a number beyond an int64 is the range
\* error of ParseInt; then math.Ldexp, which leaves 0 as it is and raises no
\* error.
FloatLdexp(t, text, binary, f, eneg, ex, run) ==
    IF f.inf THEN [val |-> ZeroFloat, err |-> OutOfRange(t, text)]
    ELSE IF binary /\ ex = <<>> THEN [val |-> ZeroFloat, err |-> ParseFailure(t, text)]
    ELSE IF binary /\ Exceeds(FALSE, FALSE, Magnitude(run, 10, <<>>), 64)
    THEN [val |-> ZeroFloat, err |-> OutOfRange(t, text)]
    ELSE IF binary /\ run # ex THEN [val |-> ZeroFloat, err |-> ParseFailure(t, text)]
    ELSE IF binary /\ Exceeds(TRUE, eneg, Magnitude(ex, 10, <<>>), 64)
    THEN [val |-> ZeroFloat, err |-> OutOfRange(t, text)]
    ELSE [val |-> Exact(IF binary /\ f.mant # <<>>
                        THEN Ldexp(t, f, eneg, Magnitude(ex, 10, <<>>),
                                   f.exp2 + BitLen(f.mant) - 1)
                        ELSE f),
          err |-> Nil]

\* fmt's convertFloat of the token sign, int, ".", frac, mark, esign, ex
\* (pre is 0x or nothing; int, frac and ex may hold "_"):
\* - a decimal token with the exponent mark p is cut at the p: ParseFloat
\*   of the part before it, then strconv.Atoi of the part after it, then
\*   math.Ldexp of the two;
\* - a decimal token with the mark P is not a number for ParseFloat;
\* - any other token is handed to ParseFloat: digits are needed in the
\*   mantissa, a digit at the head of the exponent when there is a mark, an
\*   exponent for a hexadecimal mantissa.
\* ParseFloat gives the float nearest to the number it reads.
ConvertFloat(t, text, neg, hex, tok, mant, fracLen, mark, eneg, ex) ==
    IF \/ mant = <<>>
       \/ ~UnderscoresOK(IF ~hex /\ mark = <<"p">>
                         THEN SubSeq(tok, 1, Index(tok, <<"p">>) - 1)
                         ELSE tok, hex)
       \/ /\ hex \/ mark # <<"p">>
          /\ \/ mark # <<>> /\ (ex = <<>> \/ Head(ex) = "_")
             \/ ~hex /\ mark = <<"P">>
             \/ hex /\ mark = <<>>
    THEN [val |-> ZeroFloat, err |-> ParseFailure(t, text)]
    ELSE FloatLdexp(t, text, ~hex /\ mark = <<"p">>,
                    Round(t, neg, Magnitude(ToLower(mant), IF hex THEN 16 ELSE 10, <<>>),
                          IF hex THEN 0
                          ELSE IF mark = <<"p">> THEN 0 - fracLen
                          ELSE (IF eneg THEN 0 - CapExp(WithoutUnderscores(ex), 0)
                                ELSE CapExp(WithoutUnderscores(ex), 0)) - fracLen,
                          IF ~hex THEN 0
                          ELSE (IF eneg THEN 0 - CapExp(WithoutUnderscores(ex), 0)
                                ELSE CapExp(WithoutUnderscores(ex), 0)) - 4 * fracLen),
                    eneg, ex, Run(ex, DecimalDigits))

\* the exponent of the float token: a mark, a sign, decimal digits or "_"
FloatExponent(t, text, sign, pre, int, point, frac, s3, marks) ==
    LET mark  == IF s3 # <<>> /\ Head(s3) \in marks THEN <<Head(s3)>> ELSE <<>>
        esign == IF mark # <<>> THEN SignOf(Tail(s3)) ELSE <<>>
        ex    == IF mark # <<>>
                 THEN Run(Drop(s3, 1 + Len(esign)), DecimalDigits \cup {"_"})
                 ELSE <<>>
    IN  FloatResult(t, text,
                    ConvertFloat(t, text, sign = <<"-">>, pre # <<>>,
                                 pre \o int \o point \o frac \o mark \o esign \o ex,
                                 WithoutUnderscores(int \o frac),
                                 Len(WithoutUnderscores(frac)),
                                 mark, esign = <<"-">>, ex),
                    SkipSpace(Drop(s3, Len(mark) + Len(esign) + Len(ex))))

\* the fraction of the float token: a point and the digits after it
FloatFraction(t, text, sign, pre, int, s2, digits) ==
    FloatExponent(t, text, sign, pre, int,
                  IF s2 # <<>> /\ Head(s2) = "." THEN <<".">> ELSE <<>>,
                  IF s2 # <<>> /\ Head(s2) = "." THEN Run(Tail(s2), digits) ELSE <<>>,
                  IF s2 # <<>> /\ Head(s2) = "."
                  THEN Drop(s2, 1 + Len(Run(Tail(s2), digits)))
                  ELSE s2,
                  IF pre # <<>> THEN {"p", "P"} ELSE {"e", "E", "p", "P"})

\* the digits of the float token before the point: after 0x or 0X
\* hexadecimal digits or "_", else decimal digits or "_"
FloatInteger(t, text, sign, pre, s1, digits) ==
    FloatFraction(t, text, sign, pre, Run(s1, digits), Drop(s1, Len(Run(s1, digits))),
                  digits)

\* the float token after its sign: Inf in any case of letters is the
\* token; a token that begins with i and is not Inf is no number; else 0x
\* or 0X may come first, and hexadecimal digits after it
FloatSigned(t, text, sign, s) ==
    IF Len(s) >= 3 /\ ToLower(SubSeq(s, 1, 3)) = <<"i", "n", "f">>
    THEN FloatResult(t, text,
                     [val |-> [inf |-> IF sign = <<"-">> THEN -1 ELSE 1], err |-> Nil],
                     SkipSpace(Drop(s, 3)))
    ELSE IF s # <<>> /\ Head(s) \in {"i", "I"}
    THEN [val |-> ZeroFloat, err |-> ParseFailure(t, text)]
    ELSE FloatInteger(t, text, sign,
                      IF Len(s) >= 2 /\ s[1] = "0" /\ s[2] \in {"x", "X"}
                      THEN SubSeq(s, 1, 2) ELSE <<>>,
                      IF Len(s) >= 2 /\ s[1] = "0" /\ s[2] \in {"x", "X"}
                      THEN Drop(s, 2) ELSE s,
                      IF Len(s) >= 2 /\ s[1] = "0" /\ s[2] \in {"x", "X"}
                      THEN HexadecimalDigits \cup {"_"}
                      ELSE DecimalDigits \cup {"_"})

\* fmt's floatToken from the first character that is not space: NaN in any
\* case of letters is the token; a token that begins with n and is not NaN
\* is no number; else a sign may come first
FloatToken(t, text, s) ==
    IF Len(s) >= 3 /\ ToLower(SubSeq(s, 1, 3)) = <<"n", "a", "n">>
    THEN FloatResult(t, text, [val |-> [nan |-> TRUE], err |-> Nil], SkipSpace(Drop(s, 3)))
    ELSE IF s = <<>> \/ Head(s) \in {"n", "N"}
    THEN [val |-> ZeroFloat, err |-> ParseFailure(t, text)]
    ELSE FloatSigned(t, text, SignOf(s), Drop(s, Len(SignOf(s))))

\* types.ScanFully(&f, env, 'v') into a float: fmt.Sscanf(val, "%v%s", &f, &b).
\* Leading space is skipped, a newline there is an error; then the float
\* token is scanned and converted.
ScanFloat(t, text) ==
    IF SkipSpace(text).nl THEN [val |-> ZeroFloat, err |-> ParseFailure(t, text)]
    ELSE FloatToken(t, text, SkipSpace(text).rest)

RECURSIVE valFromEnvVar(_, _)
RECURSIVE SliceFromParts(_, _, _)

\* a loop that returns the parts converted so far with the error
SliceFromParts_Partial(t, parts, out) ==
    IF parts = <<>> THEN [val |-> out, err |-> Nil]
    ELSE LET elt == valFromEnvVar(Elem(t), Head(parts))
         IN  IF elt.err # Nil THEN [val |-> out, err |-> elt.err]
             ELSE SliceFromParts(t, Tail(parts), Append(out, elt.val))

\* the loop of the reflect.Slice case: the parts converted in order, the
\* zero slice and the error at the first part that does not convert
SliceFromParts(t, parts, out) ==
    IF parts = <<>> THEN [val |-> out, err |-> Nil]
    ELSE LET elt == valFromEnvVar(Elem(t), Head(parts))
         IN  IF elt.err # Nil THEN [val |-> <<>>, err |-> elt.err]
             ELSE SliceFromParts(t, Tail(parts), Append(out, elt.val))

\* valFromEnvVar(t, env): the value as [val, err].  A pointer is [ptr |-> v].
valFromEnvVar(t, text) ==
    IF Kind(t) = "ptr" /\ ImplementsTextUnmarshaler(Elem(t))
    THEN LET r == UnmarshalText(Elem(t), text) IN [val |-> [ptr |-> r.val], err |-> r.err]
    ELSE IF Kind(t) # "ptr" /\ ImplementsTextUnmarshaler(t)
    THEN UnmarshalText(t, text)
    ELSE CASE Kind(t) = "ptr" ->
                LET r == valFromEnvVar(Elem(t), text)
                IN  [val |-> [ptr |-> r.val], err |-> r.err]
           [] Kind(t) = "string" -> [val |-> text, err |-> Nil]
           [] Kind(t) = "bool" -> ParseBool(RemoveSpaces(text))
           [] Kind(t) \in {"int", "uint"} -> ParseInt(t, text)
           [] Kind(t) = "float" -> ScanFloat(t, text)
           [] Kind(t) = "slice" -> SliceFromParts(t, Split(text, ","), <<>>)
           [] OTHER -> [val |-> <<>>, err |-> UnsupportedType(Kind(t))]

-----------------------------------------------------------------------------
(* The shape of the configuration object: reflect.StructField of every     *)
(* field, in declaration order.                                            *)

Fields == <<
    [name |-> <<"F">>,                tag |-> <<>>,              typ |-> "string"],
    [name |-> <<"N", "u">>,           tag |-> <<>>,              typ |-> "int8"],
    [name |-> <<"K", "_", "F">>,      tag |-> <<>>,              typ |-> "string"],
    [name |-> <<"L", "i">>,           tag |-> <<"l", "-", "i">>, typ |-> "[]string"],
    [name |-> <<"p", "r", "i", "v">>, tag |-> <<>>,              typ |-> "string"] >>

Sections == <<
    [name |-> <<"S", "e", "c">>, tag |-> <<"s", "-", "x">>, kind |-> "struct"],
    [name |-> <<"D", "y", "n">>, tag |-> <<>>,              kind |-> "map"],
    [name |-> <<"D", "e", "f", "a", "u", "l", "t", "_", "D", "y", "n">>,
                                 tag |-> <<>>,              kind |-> "struct"],
    [name |-> <<"h", "i", "d">>, tag |-> <<>>,              kind |-> "struct"],
    [name |-> <<"D", "y", "2">>, tag |-> <<>>,              kind |-> "map"] >>

\* reflect.Type.NumField of T and of config
NumField == Len(Fields)

NumSection == Len(Sections)

\* reflect.Zero(subsecType)
ZeroT == << <<>>, 0, <<>>, <<>>, <<>> >>

\* a nil map[string]*T
NilMap == [isNil |-> TRUE, m |-> <<>>]

\* config{}
ZeroConfig == <<ZeroT, NilMap, ZeroT, ZeroT, NilMap>>

\* every field taken for exported
IsExported_All(sf) == TRUE

\* StructField.IsExported (and Value.CanSet, which an unexported field fails)
IsExported(sf) == \E n \in 1..26 : Upper[n] = Head(sf.name)

\* fieldToEnvVar(field)
fieldToEnvVar(sf) ==
    IF sf.tag # <<>> THEN ToUpper(DashToUnderscore(sf.tag)) ELSE ToUpper(sf.name)

\* the prefix handed on as the caller gave it
NormalizePrefix_None(p) == p

\* the prefix as readWithMapInto hands it to the walker
NormalizePrefix(p) ==
    IF p # <<>> /\ ~HasSuffix(p, <<"_">>) THEN p \o <<"_">> ELSE p

\* no error taken for fatal
FatalOnly_Never(e) == Nil

\* gcfg.FatalOnly(err): the error when it is fatal, nil for a warning
FatalOnly(e) == IF e.kind = "fatal" THEN e ELSE Nil

\* the upstream warning dropped
ReturnValue_Swallow(e, upstream) == e

\* the return of readWithMapInto once the walker has returned e
ReturnValue(e, upstream) == IF e = Nil THEN upstream ELSE e

\* a walker that goes on after a failed conversion
Aborts_Never(e) == FALSE

\* "if err != nil { return err }" after a conversion
Aborts(e) == e # Nil

\* a write that replaces the sequence instead of appending to it
SetFlatField_Replace(kind, old, new) == new

\* the write into a field of a struct section
SetFlatField(kind, old, new) == IF kind = "slice" THEN old \o new ELSE new

\* the write into a field of a subsection: reflect.Value.Elem of a slice
\* value panics before anything is appended
SetSubsecField(kind, old, new) ==
    IF kind = "slice" THEN [panic |-> TRUE, val |-> old]
    ELSE [panic |-> FALSE, val |-> new]

\* a location of the object: section index, subsection name, field index
Loc(si, name, fi) == <<si, name, fi>>

\* delete(m, k)
Delete(m, k) == [x \in DOMAIN m \ {k} |-> m[x]]

RECURSIVE FlatFields(_, _, _, _, _)
\* the loop over the fields of struct section si from field fi on;
\* a = [rec, err, j, w]: the section, the error returned, the loop counter
\* and the writes made
FlatFields(a, si, secPrefix, environ, fi) ==
    IF fi > NumField THEN [a EXCEPT !.j = fi]
    ELSE LET sf     == Fields[fi]
             envVar == secPrefix \o <<"_">> \o fieldToEnvVar(sf)
         IN  IF ~IsExported(sf) \/ envVar \notin DOMAIN environ
             THEN FlatFields(a, si, secPrefix, environ, fi + 1)
             ELSE LET r  == valFromEnvVar(sf.typ, environ[envVar])
                      nv == SetFlatField(Kind(sf.typ), a.rec[fi], r.val)
                  IN  IF Aborts(r.err)
                      THEN [a EXCEPT !.err = r.err, !.j = fi]
                      ELSE FlatFields([a EXCEPT !.rec[fi] = nv,
                                                !.w = (Loc(si, <<>>, fi) :> nv) @@ a.w],
                                      si, secPrefix, environ, fi + 1)

\* the partition of the environment for a map section
MatchingEnv(environ, secPrefix) ==
    LET p    == secPrefix \o <<"_">>
        keys == {e \in DOMAIN environ : HasPrefix(e, p) /\ ReplaceFirst(e, p) # <<>>}
    IN  [k \in {ReplaceFirst(e, p) : e \in keys} |->
            environ[CHOOSE e \in keys : ReplaceFirst(e, p) = k]]

\* the relative-key prefix of an existing subsection
SubsecKey(name) == IF name \o <<"_">> = <<"_">> THEN <<>> ELSE name \o <<"_">>

RECURSIVE SubsecFields(_, _, _, _)
\* the loop over the fields of the existing subsection `name` of map section
\* si from field fi on; a = [rec, menv, err, panic, j, w]
SubsecFields(a, si, name, fi) ==
    IF fi > NumField THEN [a EXCEPT !.j = fi]
    ELSE LET sf     == Fields[fi]
             envVar == SubsecKey(name) \o fieldToEnvVar(sf)
         IN  IF ~IsExported(sf) \/ envVar \notin DOMAIN a.menv
             THEN SubsecFields(a, si, name, fi + 1)
             ELSE LET r    == valFromEnvVar(sf.typ, a.menv[envVar])
                      left == Delete(a.menv, envVar)
                      set  == SetSubsecField(Kind(sf.typ), a.rec[fi], r.val)
                  IN  IF Aborts(r.err)
                      THEN [a EXCEPT !.menv = left, !.err = r.err, !.j = fi]
                      ELSE IF set.panic
                      THEN [a EXCEPT !.menv = left, !.panic = TRUE, !.j = fi]
                      ELSE SubsecFields([a EXCEPT !.menv = left,
                                                  !.rec[fi] = set.val,
                                                  !.w = (Loc(si, name, fi) :> set.val) @@ a.w],
                                        si, name, fi + 1)

\* index of the top-level field ref.FieldByName("Default_" + name) finds, or 0
DefaultsIndex(si) ==
    LET want == <<"D", "e", "f", "a", "u", "l", "t", "_">> \o Sections[si].name
        hits == {n \in 1..NumSection : Sections[n].name = want}
    IN  IF hits = {} THEN 0 ELSE CHOOSE n \in hits : TRUE

\* the value new subsections of map section si are seeded from
Defaults(c, si) == IF DefaultsIndex(si) = 0 THEN ZeroT ELSE c[DefaultsIndex(si)]

\* the name of the subsection an entry with relative key e and field suffix
\* suf is stored under
NewSubsecName(e, suf) == ReplaceFirst(e, suf)

-----------------------------------------------------------------------------------------------------------------------------------------------------
(* The exported functions and what they do before readWithMapInto.         *)

\* the error of os.Open
OpenError == [kind |-> "open", typ |-> "", text |-> <<>>]

\* the byte order mark, byte by byte
utf8BOM == <<"EF", "BB", "BF">>

\* maybeSkipBOM(r) on a file of these bytes read up to off, as the offset
\* it leaves: r.Read(b) reads up to len(utf8BOM) bytes; when it has read
\* that many and they are not the mark it seeks back over them; when it
\* has read fewer, or the mark, it does not
maybeSkipBOM(bytes, off) ==
    IF Len(bytes) - off >= Len(utf8BOM)
    THEN IF SubSeq(bytes, off + 1, off + Len(utf8BOM)) = utf8BOM
         THEN off + Len(utf8BOM)
         ELSE off
    ELSE Len(bytes)

RECURSIVE EnvironInto(_, _)
\* the loop of mapFromEnviron: parts := strings.SplitN(entry, "=", 2) and
\* out[parts[0]] = parts[1], which panics when the entry has no "="; a
\* later entry of the same name replaces the earlier one
EnvironInto(environ, out) ==
    IF environ = <<>> THEN [panic |-> FALSE, out |-> out]
    ELSE IF Len(SplitN(Head(environ), "=", 2)) < 2 THEN [panic |-> TRUE, out |-> <<>>]
    ELSE EnvironInto(Tail(environ),
                     (SplitN(Head(environ), "=", 2)[1] :> SplitN(Head(environ), "=", 2)[2])
                         @@ out)

mapFromEnviron(environ) == EnvironInto(environ, <<>>)

-----
(* Inputs: the environment maps, prefixes and base-parse results the       *)
(* walker is run on.                                                       *)

\* most entries an environment map holds
MaxEnv == 2

\* NAME=value entries without a prefix
Pool == {
    [k |-> <<"S", "_", "X", "_", "F">>, v |-> <<"w">>],
    [k |-> <<"S", "_", "X", "_", "N", "U">>, v |-> <<"7">>],
    [k |-> <<"S", "_", "X", "_", "N", "U">>, v |-> <<"x">>],
    [k |-> <<"S", "_", "X", "_", "K", "_", "F">>, v |-> <<"w">>],
    [k |-> <<"S", "_", "X", "_", "L", "_", "I">>, v |-> <<"b", ",", "c">>],
    [k |-> <<"S", "_", "X", "_", "P", "R", "I", "V">>, v |-> <<"w">>],
    [k |-> <<"S", "E", "C", "_", "F">>, v |-> <<"w">>],
    [k |-> <<"H", "I", "D", "_", "F">>, v |-> <<"w">>],
    [k |-> <<"D", "E", "F", "A", "U", "L", "T", "_", "D", "Y", "N", "_", "K", "_", "F">>, v |-> <<"w">>],
    [k |-> <<"D", "Y", "N", "_", "F">>, v |-> <<"w">>],
    [k |-> <<"D", "Y", "N", "_", "K", "_", "F">>, v |-> <<"w">>],
    [k |-> <<"D", "Y", "N", "_", "k", "_", "F">>, v |-> <<"w">>],
    [k |-> <<"D", "Y", "N", "_", "k", "_", "L", "_", "I">>, v |-> <<"b", ",", "c">>],
    [k |-> <<"D", "Y", "N", "_", "k", "_", "N", "U">>, v |-> <<"x">>],
    [k |-> <<"D", "Y", "N", "_", "m", "_", "N", "U">>, v |-> <<"7">>],
    [k |-> <<"D", "Y", "N", "_", "k", "_", "P", "R", "I", "V">>, v |-> <<"w">>],
    [k |-> <<"D", "Y", "N", "_", "a", "_", "F", "b", "_", "F">>, v |-> <<"w">>],
    [k |-> <<"D", "Y", "N", "_">>, v |-> <<"w">>],
    [k |-> <<"D", "Y", "N", "_", "_", "F">>, v |-> <<"w">>],
    [k |-> <<"D", "Y", "2", "_", "k", "_", "F">>, v |-> <<"w">>] }

\* NAME=value entries under the prefix AP_
PrefixedPool == {
    [k |-> <<"A", "P", "_", "S", "_", "X", "_", "F">>, v |-> <<"w">>],
    [k |-> <<"A", "P", "_", "S", "_", "X", "_", "N", "U">>, v |-> <<"x">>],
    [k |-> <<"A", "P", "_", "S", "_", "X", "_", "L", "_", "I">>, v |-> <<"b", ",", "c">>],
    [k |-> <<"A", "P", "_", "D", "Y", "N", "_", "k", "_", "F">>, v |-> <<"w">>] }

RECURSIVE EnvsUpTo(_)
\* the environment maps of at most n entries of the pools
EnvsUpTo(n) ==
    IF n = 0 THEN {<<>>}
    ELSE LET less == EnvsUpTo(n - 1)
         IN  less \cup {(e.k :> e.v) @@ m :
                           m \in less, e \in Pool \cup PrefixedPool}

Envs == EnvsUpTo(MaxEnv)

RECURSIVE Listing(_)
\* the entries NAME=value of an environment map, one after the other
Listing(m) ==
    IF DOMAIN m = {} THEN <<>>
    ELSE <<(CHOOSE k \in DOMAIN m : TRUE) \o <<"=">> \o m[CHOOSE k \in DOMAIN m : TRUE]>>
             \o Listing(Delete(m, CHOOSE k \in DOMAIN m : TRUE))

\* entries the maps do not give: a name twice, a "=" in the value, an empty
\* value, an empty name, no "="
OddEnvirons == {
    <<<<"S", "_", "X", "_", "F", "=", "v">>, <<"S", "_", "X", "_", "F", "=", "w">>>>,
    <<<<"S", "_", "X", "_", "F", "=", "a", "=", "b">>>>,
    <<<<"S", "_", "X", "_", "F", "=">>>>,
    <<<<"=", "w">>>>,
    <<<<"H", "O", "M", "E">>>>,
    <<<<"S", "_", "X", "_", "F", "=", "w">>, <<"H", "O", "M", "E">>>> }

\* what os.Environ() returns
Environs == {Listing(m) : m \in Envs} \cup OddEnvirons

\* the same, for the calls of ReadFileWithEnvInto
FileEnvirons == {<<>>, <<<<"S", "_", "X", "_", "F", "=", "w">>>>, <<<<"H", "O", "M", "E">>>>}

\* the first bytes of a file
FileContents == {
    <<>>, <<"[">>, <<"[", "s">>, <<"[", "s", "]">>, <<"EF", "BB">>, <<"EF", "BB", "[">>,
    utf8BOM, utf8BOM \o <<"[">> }

\* what os.Open(filename) finds: no file, or a file
Files == {[ok |-> FALSE, bytes |-> <<>>]} \cup {[ok |-> TRUE, bytes |-> b] : b \in FileContents}

\* the reader r handed to ReadWithEnvInto
Reader == [ok |-> TRUE, bytes |-> <<"[", "s", "]">>]

Prefixes == {<<>>, <<"A", "P">>, <<"A", "P", "_">>}

RecA == << <<"v">>, 1, <<>>, << <<"a">> >>, <<"p">> >>

RecB == << <<>>, 0, <<"u">>, <<>>, <<>> >>

RecD == << <<>>, 2, <<"d">>, <<>>, <<"q">> >>

\* what the base parser can leave in the object
BaseConfigs == {
    <<ZeroT, NilMap, RecD, ZeroT, NilMap>>,
    <<RecA, [isNil |-> FALSE, m |-> (<<>> :> RecA) @@ (<<"K">> :> RecB)],
      RecD, RecA, NilMap>>,
    <<RecA, [isNil |-> FALSE, m |-> (<<"k">> :> RecA)],
      ZeroT, RecA, [isNil |-> FALSE, m |-> <<>>]>>,
    <<ZeroT, [isNil |-> FALSE, m |-> (<<"a", "b", "_", "F">> :> RecB)],
      ZeroT, ZeroT, NilMap>> }

\* what the base parser can return
UpstreamResults == {Nil, UpstreamWarning, UpstreamFatal}

-----------------------------------------------------------------------------
(* The exported functions and readWithMapInto, step by step.               *)

\* the caller calls ReadFileWithEnvInto(filename, envPrefix, &config) or
\* ReadWithEnvInto(r, envPrefix, &config)
Init ==
    /\ \/ /\ pc = "ReadFileWithEnvInto"
          /\ file \in Files
          /\ osEnviron \in FileEnvirons
       \/ /\ pc = "ReadWithEnvInto"
          /\ file = Reader
          /\ osEnviron \in Environs
    /\ offset = 0
    /\ env = <<>>
    /\ envPrefix \in Prefixes
    /\ cfg = ZeroConfig
    /\ upstreamErr = Nil
    /\ prefix = envPrefix
    /\ i = 0
    /\ j = 0
    /\ matchingEnv = <<>>
    /\ iterLeft = {}
    /\ err = Nil
    /\ ret = Nil
    /\ cfg0 = ZeroConfig
    /\ written = <<>>
    /\ convType = "string"
    /\ convText = <<>>
    /\ convResult = [val |-> <<>>, err |-> Nil]

\* os.Open(filename): its error is returned and nothing else is done;
\* otherwise maybeSkipBOM(f), and f is handed to ReadWithEnvInto
ReadFileWithEnvInto ==
    /\ pc = "ReadFileWithEnvInto"
    /\ IF ~file.ok
       THEN /\ ret' = OpenError
            /\ pc' = "openFailed"
            /\ UNCHANGED offset
       ELSE /\ offset' = maybeSkipBOM(file.bytes, offset)
            /\ pc' = "ReadWithEnvInto"
            /\ UNCHANGED ret
    /\ UNCHANGED <<osEnviron, file, env, envPrefix, cfg, upstreamErr, prefix, i, j,
                   matchingEnv, iterLeft, err, cfg0, written>>
    /\ UNCHANGED conv

\* env := mapFromEnviron(os.Environ()), which panics on an entry without
\* "="; the map is handed to readWithMapInto
ReadWithEnvInto ==
    /\ pc = "ReadWithEnvInto"
    /\ IF mapFromEnviron(osEnviron).panic
       THEN /\ pc' = "environPanic"
            /\ UNCHANGED env
       ELSE /\ env' = mapFromEnviron(osEnviron).out
            /\ pc' = "start"
    /\ UNCHANGED <<envPrefix, cfg, upstreamErr, prefix, i, j, matchingEnv, iterLeft,
                   err, ret, cfg0, written>>
    /\ UNCHANGED conv
    /\ UNCHANGED caller

\* gcfg.ReadInto reads r to its end, fills the object and returns; a fatal
\* error is returned at once, otherwise the prefix is normalised and the
\* walk begins
ReadInto ==
    /\ pc = "start"
    /\ offset' = Len(file.bytes)
    /\ \E b \in BaseConfigs, u \in UpstreamResults :
          /\ cfg' = b
          /\ cfg0' = b
          /\ upstreamErr' = u
          /\ IF FatalOnly(u) # Nil
             THEN /\ ret' = u
                  /\ pc' = "done"
                  /\ UNCHANGED <<prefix, i>>
             ELSE /\ prefix' = NormalizePrefix(envPrefix)
                  /\ pc' = "walk"
                  /\ i' = 1
                  /\ UNCHANGED ret
    /\ UNCHANGED <<env, envPrefix, j, matchingEnv, iterLeft, err, written>>
    /\ UNCHANGED conv
    /\ UNCHANGED <<osEnviron, file>>

SecPrefix(si) == prefix \o fieldToEnvVar(Sections[si])

\* a top-level field that is not exported is passed over
SkipSection ==
    /\ pc = "walk"
    /\ i <= NumSection
    /\ ~IsExported(Sections[i])
    /\ i' = i + 1
    /\ UNCHANGED <<env, envPrefix, cfg, upstreamErr, prefix, pc, j, matchingEnv,
                   iterLeft, err, ret, cfg0, written>>
    /\ UNCHANGED conv
    /\ UNCHANGED caller

\* a struct section: its fields in declaration order
FlatSection ==
    /\ pc = "walk"
    /\ i <= NumSection
    /\ IsExported(Sections[i])
    /\ Sections[i].kind = "struct"
    /\ LET a == FlatFields([rec |-> cfg[i], err |-> Nil, j |-> 1, w |-> written],
                           i, SecPrefix(i), env, 1)
       IN  /\ cfg' = [cfg EXCEPT ![i] = a.rec]
           /\ written' = a.w
           /\ j' = a.j
           /\ IF a.err # Nil
              THEN /\ err' = a.err
                   /\ ret' = ReturnValue(a.err, upstreamErr)
                   /\ pc' = "done"
                   /\ i' = i
              ELSE /\ i' = i + 1
                   /\ UNCHANGED <<err, ret, pc>>
    /\ UNCHANGED <<env, envPrefix, upstreamErr, prefix, matchingEnv, iterLeft, cfg0>>
    /\ UNCHANGED conv
    /\ UNCHANGED caller

\* a map section: the entries of the environment under its prefix
PartitionEnv ==
    /\ pc = "walk"
    /\ i <= NumSection
    /\ IsExported(Sections[i])
    /\ Sections[i].kind = "map"
    /\ matchingEnv' = MatchingEnv(env, SecPrefix(i))
    /\ iterLeft' = DOMAIN cfg[i].m
    /\ pc' = "existing"
    /\ UNCHANGED <<env, envPrefix, cfg, upstreamErr, prefix, i, j, err, ret,
                   cfg0, written>>
    /\ UNCHANGED conv
    /\ UNCHANGED caller

\* the existing-entry pass visits one subsection, in no particular order
ExistingEntry ==
    /\ pc = "existing"
    /\ \E name \in iterLeft :
          LET a == SubsecFields([rec |-> cfg[i].m[name], menv |-> matchingEnv,
                                 err |-> Nil, panic |-> FALSE, j |-> 1, w |-> written],
                                i, name, 1)
          IN  /\ cfg' = [cfg EXCEPT ![i].m[name] = a.rec]
              /\ matchingEnv' = a.menv
              /\ written' = a.w
              /\ j' = a.j
              /\ iterLeft' = iterLeft \ {name}
              /\ IF a.panic
                 THEN /\ pc' = "panic"
                      /\ UNCHANGED <<err, ret>>
                 ELSE IF a.err # Nil
                 THEN /\ err' = a.err
                      /\ ret' = ReturnValue(a.err, upstreamErr)
                      /\ pc' = "done"
                 ELSE UNCHANGED <<err, ret, pc>>
    /\ UNCHANGED <<env, envPrefix, upstreamErr, prefix, i, cfg0>>
    /\ UNCHANGED conv
    /\ UNCHANGED caller

\* after the existing-entry pass: on to the next section when nothing is
\* left of the partition, to the new-subsection pass otherwise
ExistingDone ==
    /\ pc = "existing"
    /\ iterLeft = {}
    /\ IF DOMAIN matchingEnv = {}
       THEN /\ i' = i + 1
            /\ pc' = "walk"
            /\ UNCHANGED j
       ELSE /\ pc' = "new"
            /\ j' = 1
            /\ UNCHANGED i
    /\ UNCHANGED <<env, envPrefix, cfg, upstreamErr, prefix, matchingEnv,
                   iterLeft, err, ret, cfg0, written>>
    /\ UNCHANGED conv
    /\ UNCHANGED caller

Suffix(fi) == <<"_">> \o fieldToEnvVar(Fields[fi])

\* the new-subsection pass passes over a field that is not exported
NewSkipField ==
    /\ pc = "new"
    /\ j <= NumField
    /\ ~IsExported(Fields[j])
    /\ j' = j + 1
    /\ UNCHANGED <<env, envPrefix, cfg, upstreamErr, prefix, pc, i, matchingEnv,
                   iterLeft, err, ret, cfg0, written>>
    /\ UNCHANGED conv
    /\ UNCHANGED caller

\* the new-subsection pass takes one entry that ends with the suffix of
\* field j, in no particular order
NewEntry ==
    /\ pc = "new"
    /\ j <= NumField
    /\ IsExported(Fields[j])
    /\ \E e \in DOMAIN matchingEnv :
          /\ HasSuffix(e, Suffix(j))
          /\ LET k      == NewSubsecName(e, Suffix(j))
                 m      == cfg[i].m
                 isNew  == k \notin DOMAIN m
                 rec    == IF isNew THEN Defaults(cfg, i) ELSE m[k]
                 r      == valFromEnvVar(Fields[j].typ, matchingEnv[e])
                 set    == SetSubsecField(Kind(Fields[j].typ), rec[j], r.val)
                 stored == IF Aborts(r.err) \/ set.panic THEN rec
                           ELSE [rec EXCEPT ![j] = set.val]
             IN  /\ cfg' = [cfg EXCEPT ![i] = [isNil |-> FALSE,
                                               m |-> (k :> stored) @@ m]]
                 /\ IF Aborts(r.err)
                    THEN /\ err' = r.err
                         /\ ret' = ReturnValue(r.err, upstreamErr)
                         /\ pc' = "done"
                         /\ UNCHANGED <<matchingEnv, written>>
                    ELSE IF set.panic
                    THEN /\ pc' = "panic"
                         /\ UNCHANGED <<matchingEnv, written, err, ret>>
                    ELSE /\ matchingEnv' = Delete(matchingEnv, e)
                         /\ written' = (Loc(i, k, j) :> set.val) @@ written
                         /\ UNCHANGED <<pc, err, ret>>
    /\ UNCHANGED <<env, envPrefix, upstreamErr, prefix, i, j, iterLeft, cfg0>>
    /\ UNCHANGED conv
    /\ UNCHANGED caller

\* no entry is left that ends with the suffix of field j
NewNextField ==
    /\ pc = "new"
    /\ j <= NumField
    /\ IsExported(Fields[j])
    /\ \A e \in DOMAIN matchingEnv : ~HasSuffix(e, Suffix(j))
    /\ j' = j + 1
    /\ UNCHANGED <<env, envPrefix, cfg, upstreamErr, prefix, pc, i, matchingEnv,
                   iterLeft, err, ret, cfg0, written>>
    /\ UNCHANGED conv
    /\ UNCHANGED caller

\* the new-subsection pass is through with the fields
NewDone ==
    /\ pc = "new"
    /\ j > NumField
    /\ i' = i + 1
    /\ pc' = "walk"
    /\ UNCHANGED <<env, envPrefix, cfg, upstreamErr, prefix, j, matchingEnv,
                   iterLeft, err, ret, cfg0, written>>
    /\ UNCHANGED conv
    /\ UNCHANGED caller

\* the walker returns nil; readWithMapInto returns the upstream error
Return ==
    /\ pc = "walk"
    /\ i > NumSection
    /\ err' = Nil
    /\ ret' = ReturnValue(Nil, upstreamErr)
    /\ pc' = "done"
    /\ UNCHANGED <<env, envPrefix, cfg, upstreamErr, prefix, i, j, matchingEnv,
                   iterLeft, cfg0, written>>
    /\ UNCHANGED conv
    /\ UNCHANGED caller

Next ==
    \/ ReadFileWithEnvInto
    \/ ReadWithEnvInto
    \/ ReadInto
    \/ SkipSection
    \/ FlatSection
    \/ PartitionEnv
    \/ ExistingEntry
    \/ ExistingDone
    \/ NewSkipField
    \/ NewEntry
    \/ NewNextField
    \/ NewDone
    \/ Return

Spec == Init /\ [][Next]_vars

-----------------------------------------------------------------------------
(* valFromEnvVar called on its own, as TestConversion calls it.            *)

\* longest run of whitespace put before and after a text
MaxPad == 1

\* the types of conversionCases, and int16 for the width
ConvTypes == {"string", "lowerString", "bool",
              "int", "int8", "int16", "int32", "int64",
              "uint", "uint8", "uint16", "uint32", "uint64",
              "float32", "float64", "[]string", "[]int8",
              "*string", "*int", "*int8", "*float32", "*lowerString", "*bool",
              "chan int", "*chan int", "[][3]int"}

\* texts without whitespace around them
ConvBases == {
    <<>>, <<"V", "a", "L">>, <<"0">>, <<"1">>, <<"Y", "E", "S">>, <<"n", "o">>,
    <<"n", " ", "o">>, <<"o", "n">>, <<"O", "F", "F">>, <<"t", "r", "u", "e">>,
    <<"n", "o", "b">>, <<"1", "0", "0">>, <<"1", "2", "7">>, <<"1", "2", "8">>,
    <<"-", "1", "2", "8">>, <<"-", "1", "2", "9">>, <<"2", "5", "5">>,
    <<"2", "5", "6">>, <<"3", "2", "7", "6", "8">>, <<"-", "3", "2", "7", "6", "9">>,
    <<"0", "x", "f", "f">>, <<"0", "x", "7", "f">>, <<"0", "x", "8", "0">>,
    <<"0", "x", "F", "F">>, <<"-", "0", "x", "8", "0">>, <<"-", "0", "x", "8", "1">>,
    <<"0", "X", "1">>, <<"+", "5">>, <<"+", "0", "x", "1">>, <<"0", "x">>,
    <<"0", "x", "1", "_", "0">>, <<"0", "x", "1", "_">>, <<"1", "x">>,
    <<"1", "2", "8", "x">>, <<"x">>, <<"1", " ", "2">>, <<"1", ".", "5">>,
    <<"1", ".", "5", "0">>, <<"2", ".", "4", "e", "-", "1">>, <<".", "5">>,
    <<"1", "e">>, <<"1", ".", "5", "x">>, <<"a", ",", "b">>, <<"A">>,
    <<"3", "4", ",", "0", "x", "1", "a">>, <<"1", ",", "x">>, <<"x", ",", "1">>,
    <<"1", ",", ",", "2">>, <<",">>, <<"1", ",", "1", "2", "8">>,
    <<"0", "x", "e", "a", "6", "1", "f">>, <<"6", "5", "5", "3", "5">>,
    <<"6", "5", "5", "3", "6">>,
    <<"2", "1", "4", "7", "4", "8", "3", "6", "4", "7">>,
    <<"2", "1", "4", "7", "4", "8", "3", "6", "4", "8">>,
    <<"-", "2", "1", "4", "7", "4", "8", "3", "6", "4", "8">>,
    <<"-", "2", "1", "4", "7", "4", "8", "3", "6", "4", "9">>,
    <<"4", "2", "9", "4", "9", "6", "7", "2", "9", "5">>,
    <<"4", "2", "9", "4", "9", "6", "7", "2", "9", "6">>,
    <<"9", "2", "2", "3", "3", "7", "2", "0", "3", "6", "8", "5", "4", "7", "7", "5", "8", "0", "7">>,
    <<"9", "2", "2", "3", "3", "7", "2", "0", "3", "6", "8", "5", "4", "7", "7", "5", "8", "0", "8">>,
    <<"-", "9", "2", "2", "3", "3", "7", "2", "0", "3", "6", "8", "5", "4", "7", "7", "5", "8", "0", "8">>,
    <<"-", "9", "2", "2", "3", "3", "7", "2", "0", "3", "6", "8", "5", "4", "7", "7", "5", "8", "0", "9">>,
    <<"1", "8", "4", "4", "6", "7", "4", "4", "0", "7", "3", "7", "0", "9", "5", "5", "1", "6", "1", "5">>,
    <<"1", "8", "4", "4", "6", "7", "4", "4", "0", "7", "3", "7", "0", "9", "5", "5", "1", "6", "1", "6">>,
    <<"0", "x", "7", "f", "f", "f", "f", "f", "f", "f", "f", "f", "f", "f", "f", "f", "f", "f">>,
    <<"0", "x", "8", "0", "0", "0", "0", "0", "0", "0", "0", "0", "0", "0", "0", "0", "0", "0">>,
    <<"-", "0", "x", "8", "0", "0", "0", "0", "0", "0", "0", "0", "0", "0", "0", "0", "0", "0", "0">>,
    <<"0", "x", "1", "0", "0", "0", "0", "0", "0", "0", "0", "0", "0", "0", "0", "0", "0", "0", "0">>,
    <<"3", ".", "1", "4", "1", "5", "9">>,
    <<"2", ".", "4", "e", "-", "1", "9">>, <<"I", "n", "f">>,
    <<"-", "i", "n", "f">>, <<"+", "I", "n", "f">>,
    <<"I", "n", "f", "i", "n", "i", "t", "y">>, <<"N", "a", "N">>,
    <<"1", "p", "2">>, <<"1", "P", "2">>, <<"0", "x", "1", "p", "-", "2">>,
    <<"0", "x", "1">>, <<"1", "_", "0">>, <<"1", "_", "_", "0">>,
    <<"1", "e", "4", "0", "0">>, <<"1", "e", "-", "4", "0", "0">>,
    <<"3", ".", "4", "e", "3", "8">>, <<"3", ".", "5", "e", "3", "8">>,
    <<"1", "p", "1", "0", "2", "4">>,
    <<"0", "x", "1", "_", "_", "0", "0", "0", "0", "0", "0", "0", "0", "0",
      "0", "0", "0", "0", "0", "0", "0">>,
    <<"-", "0">>,
    <<"0", ".", "0", "0", "0", "0", "0", "0", "0", "0", "0", "0", "0", "0",
      "0", "0", "0", "0", "0", "0", "0", "0", "0", "0", "0", "0", "0", "0",
      "0", "0", "0", "0", "0", "0", "0", "0", "0", "0", "0", "0", "0", "0",
      "0", "0", "0", "0", "0", "1", "p", "1", "0">>,
    <<"4", "0", "0", "0", "0", "0", "0", "0", "0", "0", "0", "0", "0", "0",
      "0", "0", "0", "0", "0", "0", "0", "0", "0", "0", "0", "0", "0", "0",
      "0", "0", "0", "0", "0", "0", "0", "0", "0", "0", "0", "p">>,
    <<"1", ".", "7", "9", "7", "6", "9", "3", "1", "3", "4", "8", "6", "2",
      "3", "1", "5", "8", "0", "7", "9", "3", "7", "2", "8", "9", "7", "1",
      "4", "0", "5", "3", "0", "3", "4", "1", "5", "0", "7", "9", "9", "e",
      "3", "0", "8">>,
    <<"2", ".", "4", "7", "0", "3", "2", "8", "2", "2", "9", "2", "0", "6",
      "2", "3", "2", "7", "2", "0", "8", "8", "2", "8", "4", "3", "9", "6",
      "4", "3", "4", "1", "1", "0", "6", "8", "6", "1", "8", "2", "5", "2",
      "e", "-", "3", "2", "4">>,
    <<"1", "p", "-", "1", "5", "0">>,
    <<"0", "x", "1", "p", "-", "1", "0", "7", "5">>,
    <<"1", ".", "5", "p", "-", "1", "0", "7", "4">> }

RECURSIVE Pads(_)
\* the runs of at most n whitespace characters
Pads(n) ==
    IF n = 0 THEN {<<>>}
    ELSE Pads(n - 1) \cup {<<c>> \o p : c \in {" ", "\t", "\n"}, p \in Pads(n - 1)}

ConvTexts == {l \o b \o r : l \in Pads(MaxPad), b \in ConvBases, r \in Pads(MaxPad)}

ConvInit ==
    /\ osEnviron = <<>>
    /\ file = Reader
    /\ offset = 0
    /\ env = <<>>
    /\ envPrefix = <<>>
    /\ cfg = ZeroConfig
    /\ upstreamErr = Nil
    /\ prefix = <<>>
    /\ pc = "convert"
    /\ i = 0
    /\ j = 0
    /\ matchingEnv = <<>>
    /\ iterLeft = {}
    /\ err = Nil
    /\ ret = Nil
    /\ cfg0 = ZeroConfig
    /\ written = <<>>
    /\ convType \in ConvTypes
    /\ convText \in ConvTexts
    /\ convResult = [val |-> <<>>, err |-> Nil]

\* got, err := valFromEnvVar(t, env)
Convert ==
    /\ pc = "convert"
    /\ convResult' = valFromEnvVar(convType, convText)
    /\ pc' = "converted"
    /\ UNCHANGED <<env, envPrefix, cfg, upstreamErr, prefix, i, j, matchingEnv,
                   iterLeft, err, ret, cfg0, written, convType, convText>>
    /\ UNCHANGED caller

ConvNext == Convert

ConvSpec == ConvInit /\ [][ConvNext]_vars

-----------------------------------------------------------------------------
(* What the claims are stated with: the environment keys written out as    *)
(* the naming convention gives them, independently of fieldToEnvVar.       *)

\* the prefix with "_" appended unless it is empty or already ends in "_"
SpecPrefix ==
    CASE envPrefix = <<>>               -> <<>>
      [] envPrefix = <<"A", "P">>       -> <<"A", "P", "_">>
      [] envPrefix = <<"A", "P", "_">>  -> <<"A", "P", "_">>

\* UPPER(tagOrName(S)) of the top-level fields
SpecSectionKey == << <<"S", "_", "X">>, <<"D", "Y", "N">>, <<"D", "E", "F", "A", "U", "L", "T", "_", "D", "Y", "N">>, <<"H", "I", "D">>, <<"D", "Y", "2">> >>

\* UPPER(tagOrName(F)) of the fields of T
SpecFieldKey == << <<"F">>, <<"N", "U">>, <<"K", "_", "F">>, <<"L", "_", "I">>, <<"P", "R", "I", "V">> >>

\* the environment key of field fi of flat section si
SpecFlatKey(si, fi) ==
    SpecPrefix \o SpecSectionKey[si] \o <<"_">> \o SpecFieldKey[fi]

\* the environment key of field fi of subsection `name` of dynamic section si
SpecSubsecKey(si, name, fi) ==
    SpecPrefix \o SpecSectionKey[si] \o <<"_">>
        \o (IF name = <<>> THEN <<>> ELSE name \o <<"_">>) \o SpecFieldKey[fi]

FlatSections == {1}

\* Default_Dyn, the Default Subsection Record of Dyn
DefaultRecords == {3}

DynamicSections == {2, 5}

UnexportedSections == {4}

ExportedFields == {1, 2, 3, 4}

UnexportedFields == {5}

SequenceFields == {4}

\* the base parser has returned
Parsed == pc \in {"walk", "existing", "new", "done", "panic"}

\* the overlay pass has returned without an error
PassSucceeded == pc = "done" /\ upstreamErr.kind # "fatal" /\ err = Nil

(* C1: in a flat section, once the walker is through with the section, a   *)
(* sequence field whose environment key is present holds the sequence the  *)
(* base parse left followed, in order, by the elements converted from the  *)
(* environment text; it is appended to, never replaced.                    *)
C1_FlatSequenceAppend ==
    \A si \in FlatSections, fi \in SequenceFields :
        (Parsed /\ i > si /\ SpecFlatKey(si, fi) \in DOMAIN env
            /\ valFromEnvVar(Fields[fi].typ, env[SpecFlatKey(si, fi)]).err = Nil)
        => cfg[si][fi] = cfg0[si][fi]
                            \o Split(env[SpecFlatKey(si, fi)], ",")

\* ["a"] overridden by "b,c" has ended as ["a","b","c"]
C1_Witness ==
    /\ PassSucceeded
    /\ cfg0[1][4] = << <<"a">> >>
    /\ SpecFlatKey(1, 4) \in DOMAIN env
    /\ env[SpecFlatKey(1, 4)] = <<"b", ",", "c">>
    /\ cfg[1][4] = << <<"a">>, <<"b">>, <<"c">> >>

\* what a field of a subsection held before the pass wrote to it: what the
\* base parse left, or the default the new record is seeded from
Previous(si, name, fi) ==
    IF name \in DOMAIN cfg0[si].m THEN cfg0[si].m[name][fi]
    ELSE Defaults(cfg0, si)[fi]

(* C2: in a dynamic section the overlay never faults, and when the pass    *)
(* has succeeded a sequence field of a subsection (one the base parse left *)
(* or one the pass created) whose environment key is present holds its     *)
(* previous sequence followed by the elements of the environment text.     *)
C2_DynamicSequenceAppend ==
    /\ pc # "panic"
    /\ \A si \in DynamicSections, fi \in SequenceFields :
          \A name \in DOMAIN cfg[si].m :
              (PassSucceeded /\ SpecSubsecKey(si, name, fi) \in DOMAIN env)
              => cfg[si].m[name][fi] = Previous(si, name, fi)
                      \o Split(env[SpecSubsecKey(si, name, fi)], ",")

\* the relative keys of dynamic section si in the environment
SpecRelativeKeys(si) ==
    LET p == SpecPrefix \o SpecSectionKey[si] \o <<"_">>
    IN  {SubSeq(e, Len(p) + 1, Len(e)) : e \in {x \in DOMAIN env : HasPrefix(x, p)}}

\* the relative keys that belong to a field of a subsection the base parse left
SpecExistingKeys(si) ==
    {(IF name = <<>> THEN <<>> ELSE name \o <<"_">>) \o SpecFieldKey[fi] :
        name \in DOMAIN cfg0[si].m, fi \in ExportedFields}

\* the entries that name a field of a subsection the base parse did not
\* leave: the subsection is the text before the trailing "_" + FIELD
SpecNewEntries(si) ==
    LET hits == {p \in (SpecRelativeKeys(si) \ SpecExistingKeys(si)) \X ExportedFields :
                    HasSuffix(p[1], <<"_">> \o SpecFieldKey[p[2]])}
    IN  {[name |-> SubSeq(p[1], 1, Len(p[1]) - Len(SpecFieldKey[p[2]]) - 1),
          fi   |-> p[2],
          text |-> env[SpecPrefix \o SpecSectionKey[si] \o <<"_">> \o p[1]]] : p \in hits}

\* the environment key that names field fi of a new subsection `name`
SpecNewKey(si, name, fi) ==
    SpecPrefix \o SpecSectionKey[si] \o <<"_">> \o name \o <<"_">> \o SpecFieldKey[fi]

(* C3: a subsection an environment entry names and the base parse did not  *)
(* leave is inserted under exactly that name, seeded from the Default      *)
(* Subsection Record (the zero value without one), and then overridden:    *)
(* every field of a record the pass created that no entry names equals the *)
(* default, and after a successful pass the named record exists and holds  *)
(* the entry's value.                                                      *)
C3_NewSubsectionSeeded ==
    \A si \in DynamicSections :
        /\ \A name \in DOMAIN cfg[si].m \ DOMAIN cfg0[si].m :
              \A fi \in 1..NumField :
                  SpecNewKey(si, name, fi) \notin DOMAIN env
                  => cfg[si].m[name][fi] = Defaults(cfg0, si)[fi]
        /\ PassSucceeded =>
              \A n \in SpecNewEntries(si) :
                  /\ cfg[si].isNil = FALSE
                  /\ n.name \in DOMAIN cfg[si].m
                  /\ cfg[si].m[n.name][n.fi] = valFromEnvVar(Fields[n.fi].typ, n.text).val

\* the relative key of field fi of subsection `name`
SpecRelativeKey(name, fi) ==
    (IF name = <<>> THEN <<>> ELSE name \o <<"_">>) \o SpecFieldKey[fi]

\* the text the environment holds under relative key rk of section si
SpecText(si, rk) == env[SpecPrefix \o SpecSectionKey[si] \o <<"_">> \o rk]

\* an entry of an existing subsection is gone from the partition when the
\* new-subsection pass runs, and the pass creates no subsection for it
C4_ConsumedBeforeNewPass(si) ==
    /\ (pc = "new" /\ i = si) => SpecExistingKeys(si) \cap DOMAIN matchingEnv = {}
    /\ Parsed =>
          /\ DOMAIN cfg0[si].m \subseteq DOMAIN cfg[si].m
          /\ Cardinality(DOMAIN cfg[si].m \ DOMAIN cfg0[si].m)
                <= Cardinality(SpecRelativeKeys(si) \ SpecExistingKeys(si))

(* C4: for every subsection the base parse left and every entry *)
(* whose relative key is its name + "_" + field key (the field key alone   *)
(* for the empty name), a successful pass has written the value into that  *)
(* record; the entry is gone before the new-subsection pass, which creates *)
(* no subsection for it.                                                   *)
C4_EveryExistingFieldWritten ==
    \A si \in DynamicSections :
        /\ C4_ConsumedBeforeNewPass(si)
        /\ PassSucceeded =>
              \A name \in DOMAIN cfg0[si].m, fi \in ExportedFields :
                  SpecRelativeKey(name, fi) \in SpecRelativeKeys(si)
                  => cfg[si].m[name][fi]
                        = valFromEnvVar(Fields[fi].typ,
                                        SpecText(si, SpecRelativeKey(name, fi))).val

\* the base parser reported a fatal error
Fatal == upstreamErr.kind = "fatal"

(* C5: once the base parser has reported a fatal error, readWithMapInto    *)
(* has returned that error, and the object holds what the base parser left *)
(* in it: nothing has been written from the environment.                   *)
C5_FatalShortCircuits ==
    (Parsed /\ Fatal) =>
        /\ pc = "done"
        /\ ret = upstreamErr
        /\ cfg = cfg0
        /\ written = <<>>

\* a fatal error with S_X_F=w in the environment: F is still "v"
C5_Witness ==
    /\ pc = "done"
    /\ Fatal
    /\ envPrefix = <<>>
    /\ <<"S", "_", "X", "_", "F">> \in DOMAIN env
    /\ cfg0[1][1] = <<"v">>
    /\ cfg[1][1] = <<"v">>

\* what a field of a flat section holds once text has been overlaid on old
SpecOverlay(fi, old, text) ==
    IF fi \in SequenceFields
    THEN old \o valFromEnvVar(Fields[fi].typ, text).val
    ELSE valFromEnvVar(Fields[fi].typ, text).val

(* C6: after a non-fatal warning of the base parser the walker runs: when  *)
(* readWithMapInto has returned, either the walker failed and its error is *)
(* returned, or it went through every section, the warning is returned     *)
(* (not nil), and the fields of the flat sections whose keys are in the    *)
(* environment hold the overlaid values.                                   *)
C6_WarningNotSwallowed ==
    (pc = "done" /\ upstreamErr.kind = "warning") =>
        /\ ret # Nil
        /\ err # Nil => ret = err
        /\ err = Nil =>
              /\ ret = upstreamErr
              /\ i > NumSection
              /\ \A si \in FlatSections, fi \in ExportedFields :
                    SpecFlatKey(si, fi) \in DOMAIN env
                    => cfg[si][fi] = SpecOverlay(fi, cfg0[si][fi], env[SpecFlatKey(si, fi)])

\* a warning and S_X_F=w: the warning is returned and F is "w"
C6_Witness ==
    /\ pc = "done"
    /\ upstreamErr.kind = "warning"
    /\ ret = UpstreamWarning
    /\ envPrefix = <<>>
    /\ <<"S", "_", "X", "_", "F">> \in DOMAIN env
    /\ cfg0[1][1] = <<"v">>
    /\ cfg[1][1] = <<"w">>

\* the locations of an object: section, subsection name (<<>> in a struct
\* section), field
Locations(c) ==
    {<<si, <<>>, fi>> : si \in {1, 3, 4}, fi \in 1..NumField}
    \cup UNION {{<<si, name, fi>> : name \in DOMAIN c[si].m, fi \in 1..NumField} :
                    si \in DynamicSections}

\* the value at a location
At(c, l) == IF l[1] \in DynamicSections THEN c[l[1]].m[l[2]][l[3]] ELSE c[l[1]][l[3]]

\* the exported fields of flat section si whose environment value does not convert
SpecFailing(si) ==
    {fi \in ExportedFields :
        /\ SpecFlatKey(si, fi) \in DOMAIN env
        /\ valFromEnvVar(Fields[fi].typ, env[SpecFlatKey(si, fi)]).err # Nil}

\* the first of them in declaration order
SpecFirstFailing(si) == CHOOSE fi \in SpecFailing(si) : \A g \in SpecFailing(si) : fi <= g

\* the walker has come to flat section si and is through with it
Visited(si) == Parsed /\ ~Fatal /\ (i > si \/ (i = si /\ pc = "done"))

(* C7: when a conversion fails the pass returns that conversion's error;   *)
(* every location that comes after the failing field in traversal order    *)
(* holds what the base parser left, every location written before it holds *)
(* what was written, and every other location holds what the base parser   *)
(* left. In a flat section the failing field is the first one, in          *)
(* declaration order, whose environment value does not convert.            *)
C7_AbortWithoutRollback ==
    /\ (pc = "done" /\ err.kind \in ConversionKinds) =>
          /\ ret = err
          /\ \A l \in DOMAIN written :
                l \in Locations(cfg) /\ At(cfg, l) = written[l]
          /\ \A l \in Locations(cfg0) \ DOMAIN written :
                l \in Locations(cfg) /\ At(cfg, l) = At(cfg0, l)
          /\ \A si \in (i + 1)..NumSection : cfg[si] = cfg0[si]
          /\ Sections[i].kind = "struct" =>
                \A fi \in j..NumField : cfg[i][fi] = cfg0[i][fi]
    /\ \A si \in FlatSections :
          (Visited(si) /\ SpecFailing(si) # {}) =>
              LET f == SpecFirstFailing(si)
              IN  /\ pc = "done"
                  /\ i = si
                  /\ j = f
                  /\ err = valFromEnvVar(Fields[f].typ, env[SpecFlatKey(si, f)]).err
                  /\ ret = err
                  /\ \A fi \in f..NumField : cfg[si][fi] = cfg0[si][fi]
                  /\ \A fi \in ExportedFields :
                        (fi < f /\ SpecFlatKey(si, fi) \in DOMAIN env)
                        => cfg[si][fi]
                              = SpecOverlay(fi, cfg0[si][fi], env[SpecFlatKey(si, fi)])

\* S_X_F=w and S_X_NU=x: F is overlaid, Nu fails to parse and keeps its value
C7_Witness ==
    /\ pc = "done"
    /\ envPrefix = <<>>
    /\ <<"S", "_", "X", "_", "F">> \in DOMAIN env
    /\ <<"S", "_", "X", "_", "N", "U">> \in DOMAIN env
    /\ env[<<"S", "_", "X", "_", "N", "U">>] = <<"x">>
    /\ err = ParseFailure("int8", <<"x">>)
    /\ ret = err
    /\ cfg0[1] = RecA
    /\ cfg[1] = << <<"w">>, 1, <<>>, << <<"a">> >>, <<"p">> >>

(* C8: the Default Subsection Record of a dynamic section, the top-level   *)
(* field Default_<Section> of the object, is read-only for the walker:     *)
(* once the base parse is done its fields hold what the base parser left   *)
(* in them, at every step of the overlay pass and after it, whatever the   *)
(* prefix and the environment are; no environment variable sets it.        *)
C8_DefaultsReadOnly ==
    \A si \in DynamicSections :
        (Parsed /\ DefaultsIndex(si) # 0)
        => cfg[DefaultsIndex(si)] = cfg0[DefaultsIndex(si)]

\* the environment keys derived for the unexported fields and sections
SpecUnexportedKeys ==
    {SpecFlatKey(si, fi) : si \in FlatSections, fi \in UnexportedFields}
    \cup {SpecFlatKey(si, fi) : si \in UnexportedSections, fi \in 1..NumField}
    \cup UNION {{SpecSubsecKey(si, name, fi) :
                    name \in DOMAIN cfg0[si].m, fi \in UnexportedFields} :
                        si \in DynamicSections}

(* C9: the unexported fields of the flat sections and of the subsections   *)
(* the base parser left, and the unexported section, hold what the base    *)
(* parser left; when the environment holds nothing but keys derived for    *)
(* them, the pass does not fail and the object is what the base parser     *)
(* left.                                                                   *)
C9_UnexportedUntouched ==
    /\ Parsed =>
          /\ \A si \in FlatSections \cup DefaultRecords, fi \in UnexportedFields :
                cfg[si][fi] = cfg0[si][fi]
          /\ \A si \in UnexportedSections : cfg[si] = cfg0[si]
          /\ \A si \in DynamicSections, fi \in UnexportedFields :
                \A name \in DOMAIN cfg0[si].m :
                    /\ name \in DOMAIN cfg[si].m
                    /\ cfg[si].m[name][fi] = cfg0[si].m[name][fi]
    /\ (Parsed /\ DOMAIN env \subseteq SpecUnexportedKeys) =>
          /\ pc # "panic"
          /\ err = Nil
          /\ cfg = cfg0
          /\ pc = "done" => ret = upstreamErr

\* S_X_PRIV=w and HID_F=w: the pass succeeds, priv and hid are as before
C9_Witness ==
    /\ PassSucceeded
    /\ envPrefix = <<>>
    /\ DOMAIN env = {<<"S", "_", "X", "_", "P", "R", "I", "V">>, <<"H", "I", "D", "_", "F">>}
    /\ cfg0[1][5] = <<"p">>
    /\ cfg[1][5] = <<"p">>
    /\ cfg[4] = RecA
    /\ cfg = cfg0

(* C10: once the walker is through with a flat section, an exported field  *)
(* of it holds the overlaid environment value when the environment has the *)
(* key normPrefix + UPPER(tagOrName(S)) + "_" + UPPER(tagOrName(F)), and   *)
(* what the base parser left when it has not.                              *)
C10_FlatKeyDerivation ==
    \A si \in FlatSections, fi \in ExportedFields :
        (Parsed /\ ~Fatal /\ i > si) =>
            cfg[si][fi] =
                IF SpecFlatKey(si, fi) \in DOMAIN env
                THEN SpecOverlay(fi, cfg0[si][fi], env[SpecFlatKey(si, fi)])
                ELSE cfg0[si][fi]

\* prefix "AP", AP_S_X_L_I=b,c and S_X_F=w: Li of the section tagged s-x is
\* appended to, F is not overridden by the key that lacks the prefix
C10_Witness ==
    /\ PassSucceeded
    /\ envPrefix = <<"A", "P">>
    /\ DOMAIN env = {<<"A", "P", "_", "S", "_", "X", "_", "L", "_", "I">>,
                     <<"S", "_", "X", "_", "F">>}
    /\ cfg0[1] = RecA
    /\ cfg[1] = << <<"v">>, 1, <<>>, << <<"a">>, <<"b">>, <<"c">> >>, <<"p">> >>

(* C11: after a successful pass every field of the flat section, of the    *)
(* default record and of a subsection the base parser left whose           *)
(* environment key is not in the environment holds what the base parser    *)
(* left, and every subsection the base parser left is still there.         *)
C11_OverlayAdditive ==
    /\ Parsed => \A si \in DynamicSections : DOMAIN cfg0[si].m \subseteq DOMAIN cfg[si].m
    /\ PassSucceeded =>
          /\ \A si \in FlatSections \cup DefaultRecords, fi \in 1..NumField :
                SpecFlatKey(si, fi) \notin DOMAIN env => cfg[si][fi] = cfg0[si][fi]
          /\ \A si \in DynamicSections, fi \in 1..NumField :
                \A name \in DOMAIN cfg0[si].m :
                    SpecSubsecKey(si, name, fi) \notin DOMAIN env
                    => cfg[si].m[name][fi] = cfg0[si].m[name][fi]

\* valFromEnvVar has returned
Converted == pc = "converted"

\* the integer types of a fixed width
SpecIntTypes == {"int8", "int16", "int32", "int64", "uint8", "uint16", "uint32", "uint64"}

SpecSigned == {"int8", "int16", "int32", "int64"}

\* the greatest value of the integer types
SpecMax(t) ==
    CASE t = "int8"   -> <<"1", "2", "7">>
      [] t = "int16"  -> <<"3", "2", "7", "6", "7">>
      [] t = "int32"  -> <<"2", "1", "4", "7", "4", "8", "3", "6", "4", "7">>
      [] t = "int64"  -> <<"9", "2", "2", "3", "3", "7", "2", "0", "3", "6",
                           "8", "5", "4", "7", "7", "5", "8", "0", "7">>
      [] t = "uint8"  -> <<"2", "5", "5">>
      [] t = "uint16" -> <<"6", "5", "5", "3", "5">>
      [] t = "uint32" -> <<"4", "2", "9", "4", "9", "6", "7", "2", "9", "5">>
      [] t = "uint64" -> <<"1", "8", "4", "4", "6", "7", "4", "4", "0", "7",
                           "3", "7", "0", "9", "5", "5", "1", "6", "1", "5">>

\* the least value of the integer types, without its sign
SpecMin(t) ==
    CASE t = "int8"  -> <<"1", "2", "8">>
      [] t = "int16" -> <<"3", "2", "7", "6", "8">>
      [] t = "int32" -> <<"2", "1", "4", "7", "4", "8", "3", "6", "4", "8">>
      [] t = "int64" -> <<"9", "2", "2", "3", "3", "7", "2", "0", "3", "6",
                          "8", "5", "4", "7", "7", "5", "8", "0", "8">>
      [] OTHER       -> <<"0">>

\* the text after its sign
SpecUnsigned(v) == IF v # <<>> /\ Head(v) \in {"-", "+"} THEN Tail(v) ELSE v

\* a decimal literal: digits, after a sign for a signed type
SpecDecimal(t, v) ==
    /\ (t \notin SpecSigned) => SpecUnsigned(v) = v
    /\ SpecUnsigned(v) # <<>>
    /\ \A n \in 1..Len(SpecUnsigned(v)) : SpecUnsigned(v)[n] \in DecimalDigits

\* a hexadecimal literal: 0x and digits, possibly with "_" before a digit,
\* after a "-" for a signed type
SpecHex(t, v) ==
    LET u == IF t \in SpecSigned /\ v # <<>> /\ Head(v) = "-" THEN Tail(v) ELSE v
        d == Drop(u, 2)
    IN  /\ HasPrefix(u, <<"0", "x">>)
        /\ WithoutUnderscores(d) # <<>>
        /\ \A n \in 1..Len(d) : d[n] \in HexadecimalDigits \cup {"_"}
        /\ \A n \in 1..Len(d) : d[n] = "_" => (n < Len(d) /\ d[n + 1] # "_")

\* whether a literal stands for a number below 0
SpecNegative(v) == v # <<>> /\ Head(v) = "-"

\* the number a literal stands for, without its sign
SpecValue(t, v) ==
    IF SpecHex(t, v)
    THEN Magnitude(ToLower(WithoutUnderscores(Drop(SpecUnsigned(v), 2))), 16, <<>>)
    ELSE Magnitude(SpecUnsigned(v), 10, <<>>)

\* whether the number a literal stands for is outside the range of t
SpecOutside(t, v) ==
    IF SpecNegative(v)
    THEN Less(Magnitude(SpecMin(t), 10, <<>>), SpecValue(t, v))
    ELSE Less(Magnitude(SpecMax(t), 10, <<>>), SpecValue(t, v))

(* C12: for the integer types of 8, 16, 32 and 64 bits and the text        *)
(* without the whitespace around it: a decimal or 0x literal outside the   *)
(* range of the type gives an integer-overflow error and the value 0; a    *)
(* literal inside the range gives its value and no error; any other text   *)
(* gives an error, which is a plain failure to parse when the text does    *)
(* not begin with a number.                                                *)
C12_OverflowNotParseFailure ==
    (Converted /\ convType \in SpecIntTypes) =>
        LET t == convType
            v == TrimSpace(convText)
        IN  IF SpecDecimal(t, v) \/ SpecHex(t, v)
            THEN IF SpecOutside(t, v)
                 THEN convResult = [val |-> IntValue(t, FALSE, <<>>), err |-> Overflow(t, v)]
                 ELSE convResult = [val |-> IntValue(t, SpecNegative(v), SpecValue(t, v)),
                                    err |-> Nil]
            ELSE /\ convResult.err # Nil
                 /\ (SpecUnsigned(v) = <<>> \/ Head(SpecUnsigned(v)) \notin DecimalDigits)
                       => convResult = [val |-> IntValue(t, FALSE, <<>>),
                                        err |-> ParseFailure(t, v)]

RECURSIVE SpecStripWhitespace(_)
\* the text without any of its whitespace
SpecStripWhitespace(s) ==
    IF s = <<>> THEN <<>>
    ELSE (IF IsSpace(Head(s)) THEN <<>> ELSE <<Head(s)>>) \o SpecStripWhitespace(Tail(s))

\* value and kind of outcome of a conversion
SpecOutcome(r) == <<r.val, r.err.kind>>

(* C13: for bool, the integer types and the float types, a text converts   *)
(* to the value and outcome the text without the blanks, tabs and newlines *)
(* around it converts to; for bool, to what the text without any of its    *)
(* whitespace converts to.                                                 *)
C13_WhitespaceIgnored ==
    (Converted /\ convType \in SpecIntTypes \cup {"int", "uint", "bool", "float32", "float64"}) =>
        /\ SpecOutcome(convResult)
              = SpecOutcome(valFromEnvVar(convType, TrimSpace(convText)))
        /\ convType = "bool" =>
              SpecOutcome(convResult)
                  = SpecOutcome(valFromEnvVar(convType, SpecStripWhitespace(convText)))

\* the types that, or whose pointee, implement encoding.TextUnmarshaler
SpecUnmarshalers == {"lowerString", "*lowerString"}

(* C14: for lowerString and *lowerString valFromEnvVar returns what        *)
(* UnmarshalText makes of the raw text, whitespace and commas included,    *)
(* and its error: the value for lowerString, a pointer to it for           *)
(* *lowerString; the text itself, as for a string, is never returned       *)
(* unless it has no upper-case letter.                                     *)
C14_TextUnmarshalerFirst ==
    (Converted /\ convType \in SpecUnmarshalers) =>
        LET r == UnmarshalText("lowerString", convText)
        IN  /\ convResult.err = r.err
            /\ convResult.val = IF convType = "lowerString" THEN r.val ELSE [ptr |-> r.val]
            /\ r.val = ToLower(convText)

\* *lowerString "VaL": a pointer to "val"
C14_Witness ==
    /\ Converted
    /\ convType = "*lowerString"
    /\ convText = <<"V", "a", "L">>
    /\ convResult = [val |-> [ptr |-> <<"v", "a", "l">>], err |-> Nil]

\* the slice types and their element types
SpecSliceElem(t) ==
    CASE t = "[]string" -> "string" [] t = "[]int8" -> "int8" [] t = "[][3]int" -> "[3]int"

\* the positions of the commas of a text
SpecCommas(s) == {n \in 1..Len(s) : s[n] = ","}

\* part k of a text: what lies between comma k - 1 and comma k
SpecPart(s, k) ==
    LET before == {n \in SpecCommas(s) : Cardinality({c \in SpecCommas(s) : c < n}) = k - 2}
        after  == {n \in SpecCommas(s) : Cardinality({c \in SpecCommas(s) : c < n}) = k - 1}
        from   == IF before = {} THEN 1 ELSE (CHOOSE n \in before : TRUE) + 1
        to     == IF after = {} THEN Len(s) ELSE (CHOOSE n \in after : TRUE) - 1
    IN  SubSeq(s, from, to)

(* C16: for a slice type the text is cut at every comma; when every part   *)
(* converts to the element type the result holds (number of commas + 1)    *)
(* converted parts in the order of the text; when one does not, the result *)
(* is the zero slice and the error of the first part that does not.        *)
C16_SliceAllOrNothing ==
    (Converted /\ convType \in {"[]string", "[]int8", "[][3]int"}) =>
        LET n      == Cardinality(SpecCommas(convText)) + 1
            elt(k) == valFromEnvVar(SpecSliceElem(convType), SpecPart(convText, k))
            bad    == {k \in 1..n : elt(k).err # Nil}
        IN  IF bad = {}
            THEN /\ convResult.err = Nil
                 /\ Len(convResult.val) = n
                 /\ \A k \in 1..n : convResult.val[k] = elt(k).val
            ELSE /\ convResult.val = <<>>
                 /\ convResult.err = elt(CHOOSE k \in bad : \A o \in bad : k <= o).err

\* []int8 "1,x": the zero slice and the failure of "x", not <<1>>
C16_Witness ==
    /\ Converted
    /\ convType = "[]int8"
    /\ convText = <<"1", ",", "x">>
    /\ convResult = [val |-> <<>>, err |-> ParseFailure("int8", <<"x">>)]

\* the exported fields whose suffix "_" + FIELD relative key rk ends with
SpecSuffixFields(rk) ==
    {fi \in ExportedFields : HasSuffix(rk, <<"_">> \o SpecFieldKey[fi])}

\* the first of them in declaration order
SpecSuffixField(rk) ==
    CHOOSE fi \in SpecSuffixFields(rk) : \A g \in SpecSuffixFields(rk) : fi <= g

\* the text of rk before its trailing "_" + FIELD
SpecNameBefore(rk, fi) == SubSeq(rk, 1, Len(rk) - Len(SpecFieldKey[fi]) - 1)

(* C15: after a successful pass, every entry of a dynamic section that is  *)
(* left to the new-subsection pass and ends with "_" + FIELD of an         *)
(* exported field has had its value stored in that field (the first such   *)
(* field in declaration order) of the subsection named by the text before  *)
(* that trailing suffix.                                                   *)
C15_NameIsTextBeforeSuffix ==
    \A si \in DynamicSections :
        PassSucceeded =>
            \A rk \in SpecRelativeKeys(si) \ SpecExistingKeys(si) :
                SpecSuffixFields(rk) # {} =>
                    LET fi   == SpecSuffixField(rk)
                        name == SpecNameBefore(rk, fi)
                    IN  /\ name \in DOMAIN cfg[si].m
                        /\ <<si, name, fi>> \in DOMAIN written
                        /\ written[<<si, name, fi>>]
                              = valFromEnvVar(Fields[fi].typ, SpecText(si, rk)).val

\* the existing-entry pass after the fields of subsection `name`: r is what
\* SubsecFields left of the record and of the partition
OrderedAfterSubsec(a, name, r) ==
    [m |-> [a.m EXCEPT ![name] = r.rec], menv |-> r.menv, err |-> r.err,
     panic |-> r.panic, w |-> r.w]

RECURSIVE OrderedExisting(_, _, _)
\* the existing-entry pass of map section si when the subsections in `left`
\* are visited in one fixed order; a = [m, menv, err, panic, w]
OrderedExisting(a, si, left) ==
    IF left = {} \/ a.err # Nil \/ a.panic THEN a
    ELSE LET name == CHOOSE n \in left : TRUE
         IN  OrderedExisting(
                 OrderedAfterSubsec(a, name,
                     SubsecFields([rec |-> a.m[name], menv |-> a.menv, err |-> Nil,
                                   panic |-> FALSE, j |-> 1, w |-> a.w], si, name, 1)),
                 si, left \ {name})

\* the new-subsection pass after entry e of field fj, whose text converted to
\* r and whose subsection k starts from rec
OrderedAfterEntry(a, si, fj, e, k, rec, r) ==
    LET set    == SetSubsecField(Kind(Fields[fj].typ), rec[fj], r.val)
        failed == Aborts(r.err) \/ set.panic
    IN  [sec   |-> [isNil |-> FALSE,
                    m |-> (k :> IF failed THEN rec ELSE [rec EXCEPT ![fj] = set.val])
                              @@ a.sec.m],
         menv  |-> IF failed THEN a.menv ELSE Delete(a.menv, e),
         err   |-> IF Aborts(r.err) THEN r.err ELSE Nil,
         panic |-> ~Aborts(r.err) /\ set.panic,
         w     |-> IF failed THEN a.w ELSE (Loc(si, k, fj) :> set.val) @@ a.w]

\* the new-subsection pass at entry e of field fj, stored under subsection k
OrderedAtEntry(a, dflt, si, fj, e, k) ==
    OrderedAfterEntry(a, si, fj, e, k,
                      IF k \in DOMAIN a.sec.m THEN a.sec.m[k] ELSE dflt,
                      valFromEnvVar(Fields[fj].typ, a.menv[e]))

RECURSIVE OrderedNew(_, _, _, _)
\* the new-subsection pass of map section si from field fj on when the
\* entries of the partition are taken in one fixed order;
\* a = [sec, menv, err, panic, w], dflt the record new subsections start from
OrderedNew(a, dflt, si, fj) ==
    IF fj > NumField \/ a.err # Nil \/ a.panic THEN a
    ELSE LET hits == {e \in DOMAIN a.menv : HasSuffix(e, Suffix(fj))}
             e    == CHOOSE x \in hits : TRUE
         IN  IF ~IsExported(Fields[fj]) \/ hits = {}
             THEN OrderedNew(a, dflt, si, fj + 1)
             ELSE OrderedNew(OrderedAtEntry(a, dflt, si, fj, e,
                                            NewSubsecName(e, Suffix(fj))),
                             dflt, si, fj)

\* the walk after flat section si, f being what FlatFields left
OrderedAfterFlat(a, si, f) ==
    [c |-> [a.c EXCEPT ![si] = f.rec], err |-> f.err, panic |-> FALSE, w |-> f.w]

\* the walk after map section si, n being what the two passes left
OrderedAfterMap(a, si, n) ==
    [c |-> [a.c EXCEPT ![si] = n.sec], err |-> n.err, panic |-> n.panic, w |-> n.w]

\* the new-subsection pass of map section si after the existing-entry pass
\* left x: skipped when the partition is empty
OrderedNewPass(a, si, x) ==
    IF DOMAIN x.menv = {}
    THEN [sec |-> [a.c[si] EXCEPT !.m = x.m], menv |-> x.menv, err |-> x.err,
          panic |-> x.panic, w |-> x.w]
    ELSE OrderedNew([sec |-> [a.c[si] EXCEPT !.m = x.m], menv |-> x.menv,
                     err |-> x.err, panic |-> x.panic, w |-> x.w],
                    Defaults([a.c EXCEPT ![si].m = x.m], si), si, 1)

RECURSIVE OrderedWalk(_, _)
\* setGcfgWithEnvMap from top-level field si on with those fixed orders;
\* a = [c, err, panic, w]
OrderedWalk(a, si) ==
    IF si > NumSection \/ a.err # Nil \/ a.panic THEN a
    ELSE IF ~IsExported(Sections[si]) THEN OrderedWalk(a, si + 1)
    ELSE LET secPrefix == NormalizePrefix(envPrefix) \o fieldToEnvVar(Sections[si])
         IN  IF Sections[si].kind = "struct"
             THEN OrderedWalk(
                      OrderedAfterFlat(a, si,
                          FlatFields([rec |-> a.c[si], err |-> Nil, j |-> 1, w |-> a.w],
                                     si, secPrefix, env, 1)),
                      si + 1)
             ELSE OrderedWalk(
                      OrderedAfterMap(a, si,
                          OrderedNewPass(a, si,
                              OrderedExisting([m |-> a.c[si].m,
                                               menv |-> MatchingEnv(env, secPrefix),
                                               err |-> Nil, panic |-> FALSE, w |-> a.w],
                                              si, DOMAIN a.c[si].m))),
                      si + 1)

\* how the pass over the object the base parser left ends with those orders
OrderedPass == OrderedWalk([c |-> cfg0, err |-> Nil, panic |-> FALSE, w |-> <<>>], 1)

\* the pass has ended as o says
EndedAs(o) ==
    IF o.panic THEN pc = "panic"
    ELSE /\ pc = "done"
         /\ cfg = o.c
         /\ err = o.err
         /\ ret = ReturnValue(o.err, upstreamErr)

(* C17: a pass that has ended has ended as the pass over the same object,  *)
(* prefix and environment ends that visits the subsections and the         *)
(* entries of the partition in one fixed order: with the same object and   *)
(* the same returned error, or faulting as that one does.                  *)
C17_Deterministic ==
    (pc \in {"done", "panic"} /\ ~Fatal) => EndedAs(OrderedPass)

=============================================================================
